---- MODULE Spec2Model ----
(***************************************************************************)
(* Accrew main process: AgentManager (session registry, turn driver,       *)
(* stream accumulator, workspace router), CopilotClient (event normalizer) *)
(* and Database (durable store), as a state machine.                       *)
(*                                                                         *)
(* JavaScript strings that the code concatenates or inspects character by  *)
(* character (content, thinking, prompts, workspace names) are sequences   *)
(* of one-character strings; identifiers the code only compares (tool      *)
(* names, paths, ids, event names) are TLA+ strings.  For those, null and *)
(* undefined are both NULL; an absent character string is the empty        *)
(* sequence wherever the code reads it through `|| ''`; an absent message  *)
(* id is the empty tuple; a Map or table is a function whose DOMAIN is the *)
(* set of keys present.                                                    *)
(***************************************************************************)
EXTENDS Integers, Sequences, FiniteSets, TLC

NULL == "null"

Sessions == {"s1", "s2"}

\* Bounds of the model (not program constants): the sendMessage invocations
\* (createSession's included) over all sessions, and the SDK events delivered
\* over all sessions, in Spec and in SpecTools.
MaxTurns == 2
MaxEvents == 2
MaxToolEvents == 4
\* the session:title-updated events of one session after which regenerateTitle
\* is no longer called on it
MaxTitleUpdates == 2
\* archiveSession / unarchiveSession calls are modelled while the row has been
\* written fewer times than this
MaxRowWrites == 4
\* Events emitted for a session and not yet handled by the renderer's
\* listeners, above which the main process is not scheduled for that session
MaxBacklog == 1
\* SDK events delivered in all, in the specification with the renderer
MaxRendererEvents == 1
\* Session events other than session.idle delivered to one chat() generator
MaxChatEvents == 3
\* SDK events delivered in the specification of the file-change inference
MaxInferEvents == 2
MaxHeld == 3
MaxListenerSets == 4
MaxSwitches == 2
MaxInvokes == 2
MaxInits == 3

VARIABLES
    dbSessions,      \* sessions table: session id -> row
    dbMessages,      \* messages table, per session in insertion order
    dbSnapshots,     \* file_snapshots table, per session in insertion order
    activeSessions,  \* AgentManager.activeSessions: session id -> ActiveSession
    viewedSessionId, \* AgentManager.viewedSessionId
    turns,           \* per session, the sendMessage invocations (their locals and position)
    sdkPending,      \* per session, prompts sent to the SDK session and not yet answered by session.idle
    sdkCount,        \* number of SDK events delivered so far (bounded by MaxEvents)
    uuidCount,       \* per session, number of uuid() values drawn
    emitted,         \* per session, the events passed to AgentManager.emit, in order
    fsWorkspaces,    \* the workspace folder: directory names, in listWorkspaces() order
    lastMatch,       \* what the last workspace:match call returned (none: the empty sequence)
    lastMatchCall,   \* the arguments of that call: the prompt and what the classification step did
    lastResult,      \* per session, how the last createSession / sendMessage / regenerateTitle
                     \* call settled for its caller (none, or a pending sendMessage: the empty sequence)
    sdkLog,          \* per session, the StreamEvents its SDK session has delivered to
                     \* a subscribed chat(), each once, in order
    archivedFrom,    \* per session, the status its row had when archiveSession last
                     \* archived it (history only)
    renderer,        \* the renderer's store: streamingStates, activeSessionId, aborting,
                     \* and its position in each session:create / session:abort call
                     \* and in each session's event channel
    chat, \* one CopilotClient.chat() generator: its locals, its position and what it has yielded
    opLog, \* per session, the finalization steps of sendMessage in the order they ran (history only)
    listeners, \* the renderer module's listenersSetup and cleanupFn, the listener sets registered on window.accrew.on, and the cleanup functions callers hold
    adapters, \* the adapters (CopilotClient objects) whose init() has resolved, those AgentManager has stopped, and where a stopAll() call is (history only, but for stopAll)
    process  \* process.execPath, and the init() calls of CopilotClient objects with their savedExecPath

vars == <<dbSessions, dbMessages, dbSnapshots, activeSessions, viewedSessionId,
          turns, sdkPending, sdkCount, uuidCount, emitted, fsWorkspaces, lastMatch, lastMatchCall, lastResult, sdkLog, archivedFrom, renderer, chat, opLog, listeners, adapters, process>>

----------------------------------------------------------------------------
(* JavaScript helpers *)

\* a || b on identifier strings: null, undefined and '' are falsy
Or(a, b) == IF a = NULL \/ a = "" THEN b ELSE a

\* args.key of a string-keyed map
Get(args, k) == IF k \in DOMAIN args THEN args[k] ELSE NULL

endsWith(s, c) == Len(s) > 0 /\ s[Len(s)] = c
startsWith(s, c) == Len(s) > 0 /\ s[1] = c

\* The keys of ToolCall and FileChange that the code may leave undefined.
OptionalKeys == {"result", "path", "oldContent", "newContent"}

\* JSON.stringify drops the keys whose value is undefined; JSON.parse gives the rest back
DropUndefined(r) ==
    [k \in {x \in DOMAIN r : x \notin OptionalKeys \/ r[x] # NULL} |-> r[k]]
JSONstringify(list) == [json |-> [i \in DOMAIN list |-> DropUndefined(list[i])]]
JSONparse(text) == text.json

\* uuid(): the n-th identifier drawn for session s
uuid(s, n) == <<s, n>>
NoId == <<>>

----------------------------------------------------------------------------
(* CopilotClient.normalizeEvent: the StreamEvent of an SDK event, as a       *)
(* sequence of length 1, or the empty sequence for null.                     *)

normalizeEvent(event) ==
    IF event.type = "assistant.reasoning_delta"
      THEN << [type |-> "thinking", content |-> event.deltaContent] >>
    ELSE IF event.type = "assistant.reasoning"
      THEN << [type |-> "thinking", content |-> event.content] >>
    ELSE IF event.type = "assistant.message_delta"
      THEN << [type |-> "text", content |-> event.deltaContent] >>
    ELSE IF event.type = "assistant.message"
      THEN IF Len(event.content) > 0
             THEN << [type |-> "text", content |-> event.content] >>
             ELSE << >>
    ELSE IF event.type = "tool.execution_start"
      THEN << [type |-> "tool_call", id |-> event.toolCallId, name |-> event.toolName,
               arguments |-> event.arguments] >>
    ELSE IF event.type = "tool.execution_complete"
      THEN << [type |-> "tool_result", toolCallId |-> event.toolCallId,
               result |-> event.result] >>
    ELSE << >>

\* A tool name (a string is a sequence of characters; the empty one stands for
\* an undefined name as well)
EditFile == <<"e", "d", "i", "t", "_", "f", "i", "l", "e">>

\* The SDK events the model's agent process can deliver.
SdkEvents ==
    { [type |-> "assistant.reasoning_delta", deltaContent |-> <<"t">>],
      [type |-> "assistant.message_delta", deltaContent |-> <<"a">>],
      [type |-> "tool.execution_start", toolCallId |-> "c1", toolName |-> EditFile,
       arguments |-> [path |-> "f1", newString |-> "n"]],
      [type |-> "tool.execution_complete", toolCallId |-> "c1", result |-> "ok"] }

----------------------------------------------------------------------------
(* CopilotClient.chat: one generator, from its creation to its return.       *)
(* JavaScript runs the body without interruption from one suspension point   *)
(* (a yield, or the await of the wake-up promise) to the next, and a session *)
(* callback without interruption as well.                                    *)

\* pc: "created" (chat(message) was called, the body has not started),
\* "await" (at `await new Promise(r => { resolve = r })`), "yield" (an event
\* was handed to the for-await loop), "returned".  promise: the promise whose
\* resolver `resolve` holds: "none" (resolve is null), "pending", "resolved".
\* calls, queued, yielded, delivered, idles, backlogAtIdle are history: the
\* session methods called, every event pushed, every event yielded, the number
\* of session events and of session.idle events seen by the callback, and the
\* length of the queue when session.idle arrived.
NewChat ==
    [pc |-> "created", events |-> << >>, promise |-> "none", done |-> FALSE,
     subscribed |-> FALSE, calls |-> << >>, queued |-> << >>, yielded |-> << >>,
     delivered |-> 0, idles |-> 0, backlogAtIdle |-> 0]

\* resolve?.(): a pending promise is resolved; a null or used resolver does nothing
Resolve(promise) == IF promise = "pending" THEN "resolved" ELSE promise

\* Mutant of OnSessionEvent: a pushed event does not wake the consumer
OnSessionEventNoWake(c, event) ==
    LET normalized == normalizeEvent(event)
        c1 == IF normalized # << >>
                THEN [c EXCEPT !.events = @ \o normalized, !.queued = @ \o normalized]
                ELSE c
    IN IF event.type = "session.idle"
         THEN [c1 EXCEPT !.done = TRUE, !.promise = Resolve(@)]
         ELSE c1

\* The callback chat() passes to session.on
OnSessionEvent(c, event) ==
    LET normalized == normalizeEvent(event)
        c1 == IF normalized # << >>
                THEN [c EXCEPT !.events = @ \o normalized, !.queued = @ \o normalized,
                               !.promise = Resolve(@)]
                ELSE c
    IN IF event.type = "session.idle"
         THEN [c1 EXCEPT !.done = TRUE, !.promise = Resolve(@)]
         ELSE c1

\* events.shift() handed to the consumer
YieldHead(c) ==
    [c EXCEPT !.pc = "yield", !.events = Tail(@), !.yielded = Append(@, Head(c.events))]

\* The body of chat() from the head of `while (!done)` to its next suspension
\* point: the two loops, and the finally block when both are over
RunChat(c) ==
    IF ~c.done
      THEN IF Len(c.events) > 0
             THEN YieldHead(c)
             ELSE [c EXCEPT !.pc = "await", !.promise = "pending"]
    ELSE IF Len(c.events) > 0
      THEN YieldHead(c)
    ELSE [c EXCEPT !.pc = "returned", !.subscribed = FALSE,
                   !.calls = Append(@, "unsubscribe")]

----------------------------------------------------------------------------
(* String functions on character sequences *)

UpperCaseLetters == <<"A", "B", "C", "D", "E", "F", "G", "H", "I", "J", "K", "L", "M", "N", "O", "P", "Q", "R", "S", "T", "U", "V", "W", "X", "Y", "Z">>
LowerCaseLetters == <<"a", "b", "c", "d", "e", "f", "g", "h", "i", "j", "k", "l", "m", "n", "o", "p", "q", "r", "s", "t", "u", "v", "w", "x", "y", "z">>

\* String.prototype.toLowerCase
LowerOf == [j \in DOMAIN UpperCaseLetters |-> LowerCaseLetters[j]]
UpperIndex == [c \in {UpperCaseLetters[j] : j \in DOMAIN UpperCaseLetters} |->
                 CHOOSE j \in DOMAIN UpperCaseLetters : UpperCaseLetters[j] = c]
toLowerCase(s) ==
    [i \in DOMAIN s |-> IF s[i] \in DOMAIN UpperIndex THEN LowerOf[UpperIndex[s[i]]] ELSE s[i]]

\* String.prototype.includes
includes(hay, needle) ==
    \E i \in 0..(Len(hay) - Len(needle)) : SubSeq(hay, i + 1, i + Len(needle)) = needle

\* The tool names handleStreamEvent compares tc.name?.toLowerCase() with
CreatedTools == {<<"w", "r", "i", "t", "e", "_", "f", "i", "l", "e">>,
                 <<"c", "r", "e", "a", "t", "e", "_", "f", "i", "l", "e">>,
                 <<"c", "r", "e", "a", "t", "e">>}
ModifiedTools == {<<"e", "d", "i", "t">>,
                  <<"e", "d", "i", "t", "_", "f", "i", "l", "e">>,
                  <<"r", "e", "p", "l", "a", "c", "e", "_", "s", "t", "r", "i", "n", "g", "_", "i", "n", "_", "f", "i", "l", "e">>,
                  <<"s", "t", "r", "_", "r", "e", "p", "l", "a", "c", "e">>}
DeletedTools == {<<"d", "e", "l", "e", "t", "e", "_", "f", "i", "l", "e">>,
                 <<"d", "e", "l", "e", "t", "e">>}

----------------------------------------------------------------------------
(* AgentManager.handleStreamEvent on an ActiveSession record `a`:            *)
(* the record afterwards and the events emitted.                             *)

\* active.toolCalls.find(t => t.id === id): its index, or 0
FindToolCall(toolCalls, id) ==
    IF \E i \in DOMAIN toolCalls : toolCalls[i].id = id
      THEN CHOOSE i \in DOMAIN toolCalls :
             /\ toolCalls[i].id = id
             /\ \A j \in DOMAIN toolCalls : toolCalls[j].id = id => i <= j
      ELSE 0

\* Mutant of InferFileChange: args.filePath is looked at before args.path
InferFileChangeFilePathFirst(tc) ==
    LET args == tc.arguments
        toolName == toLowerCase(tc.name)
        path == Or(Get(args, "filePath"), Get(args, "path"))
    IN  IF toolName \in CreatedTools
          THEN << [path |-> path, type |-> "created",
                   newContent |-> Or(Get(args, "content"), "")] >>
        ELSE IF toolName \in ModifiedTools
          THEN << [path |-> path, type |-> "modified",
                   oldContent |-> Or(Get(args, "oldString"),
                                  Or(Get(args, "old_str"), Or(Get(args, "search"), ""))),
                   newContent |-> Or(Get(args, "newString"),
                                  Or(Get(args, "new_str"),
                                  Or(Get(args, "replace"), Or(Get(args, "content"), ""))))] >>
        ELSE IF toolName \in DeletedTools
          THEN << [path |-> path, type |-> "deleted", oldContent |-> ""] >>
        ELSE << >>

\* The FileChange a completed tool call stands for, as a sequence of length 0 or 1.
InferFileChange(tc) ==
    LET args == tc.arguments
        toolName == toLowerCase(tc.name)
        path == Or(Get(args, "path"), Get(args, "filePath"))
    IN  IF toolName \in CreatedTools
          THEN << [path |-> path, type |-> "created",
                   newContent |-> Or(Get(args, "content"), "")] >>
        ELSE IF toolName \in ModifiedTools
          THEN << [path |-> path, type |-> "modified",
                   oldContent |-> Or(Get(args, "oldString"),
                                  Or(Get(args, "old_str"), Or(Get(args, "search"), ""))),
                   newContent |-> Or(Get(args, "newString"),
                                  Or(Get(args, "new_str"),
                                  Or(Get(args, "replace"), Or(Get(args, "content"), ""))))] >>
        ELSE IF toolName \in DeletedTools
          THEN << [path |-> path, type |-> "deleted", oldContent |-> ""] >>
        ELSE << >>

handleStreamEvent(a, event) ==
    IF event.type = "thinking" THEN
        [active |-> [a EXCEPT !.thinking = @ \o event.content],
         out |-> << [event |-> "agent:thinking", content |-> event.content] >>]
    ELSE IF event.type = "tool_call" THEN
        IF event.id # NULL /\ event.id # "" /\ Len(event.name) > 0
          THEN LET toolCall == [id |-> event.id, name |-> event.name,
                                arguments |-> event.arguments, status |-> "running",
                                result |-> NULL]
               IN [active |-> [a EXCEPT !.toolCalls = Append(@, toolCall)],
                   out |-> << [event |-> "agent:tool-call", toolCall |-> toolCall] >>]
          ELSE [active |-> a, out |-> << >>]
    ELSE IF event.type = "tool_result" THEN
        LET i == FindToolCall(a.toolCalls, event.toolCallId)
            result == [event |-> "agent:tool-result", toolCallId |-> event.toolCallId,
                       result |-> event.result]
        IN  IF i # 0
              THEN LET tc == [a.toolCalls[i] EXCEPT !.result = event.result,
                                                    !.status = "completed"]
                       change == InferFileChange(tc)
                   IN [active |-> [a EXCEPT !.toolCalls[i] = tc,
                                            !.fileChanges = @ \o change],
                       out |-> [k \in DOMAIN change |->
                                  [event |-> "agent:file-change", change |-> change[k]]]
                               \o << result >>]
              ELSE [active |-> a, out |-> << result >>]
    ELSE \* 'text'
        LET newContent == event.content
            separator == IF /\ Len(a.content) > 0 /\ Len(newContent) > 0
                            /\ ~endsWith(a.content, "\n") /\ ~startsWith(newContent, "\n")
                           THEN <<"\n", "\n">> ELSE << >>
        IN [active |-> [a EXCEPT !.content = @ \o separator \o newContent],
            out |-> << [event |-> "agent:response", content |-> separator \o newContent] >>]

----------------------------------------------------------------------------
(* Database *)

\* Database.addMessage: a row of the messages table.  A TEXT column holding
\* JSON is a sequence of length 0 (NULL) or 1; `updates` counts the
\* updateMessage calls the row has received.
addMessage(id, role, content) ==
    [id |-> id, role |-> role, content |-> content, thinking |-> << >>,
     tool_calls |-> << >>, file_changes |-> << >>, updates |-> 0]

\* Database.updateMessage on one row; `updates` holds only the defined fields.
updateMessage(row, updates) ==
    [row EXCEPT
       !.content = IF "content" \in DOMAIN updates THEN updates.content ELSE @,
       !.thinking = IF "thinking" \in DOMAIN updates THEN updates.thinking ELSE @,
       !.tool_calls = IF "toolCalls" \in DOMAIN updates
                        THEN << JSONstringify(updates.toolCalls) >> ELSE @,
       !.file_changes = IF "fileChanges" \in DOMAIN updates
                          THEN << JSONstringify(updates.fileChanges) >> ELSE @,
       !.updates = @ + 1]

\* UPDATE messages ... WHERE id = ?
UpdateMessageRows(rows, id, updates) ==
    [i \in DOMAIN rows |-> IF rows[i].id = id THEN updateMessage(rows[i], updates)
                                              ELSE rows[i]]

\* Database.rowToMessage: the toolCalls / fileChanges a reader gets (undefined: empty)
RowToolCalls(row) == IF row.tool_calls = << >> THEN << >> ELSE JSONparse(row.tool_calls[1])
RowFileChanges(row) ==
    IF row.file_changes = << >> THEN << >> ELSE JSONparse(row.file_changes[1])

\* Database.saveFileSnapshot: the row inserted for one change
saveFileSnapshot(sessionId, messageId, change) ==
    [session_id |-> sessionId, message_id |-> messageId, file_path |-> change.path,
     old_content |-> Or(Get(change, "oldContent"), NULL),
     new_content |-> Or(Get(change, "newContent"), NULL),
     change_type |-> change.type]

\* Database.updateSession on one row; `updates` holds only the defined fields.
\* updated_at = Date.now() is written by every call: the row's updatedAt is
\* the number of times it has been written since the row was inserted.
updateSession(row, updates) ==
    [row EXCEPT
       !.title = IF "title" \in DOMAIN updates THEN updates.title ELSE @,
       !.hasUnread = IF "hasUnread" \in DOMAIN updates THEN updates.hasUnread ELSE @,
       !.status = IF "status" \in DOMAIN updates THEN updates.status ELSE @,
       !.updatedAt = @ + 1]

\* UPDATE sessions ... WHERE id = ? (no row: nothing changes)
UpdateSessionRows(rows, id, updates) ==
    [s \in DOMAIN rows |-> IF s = id THEN updateSession(rows[s], updates) ELSE rows[s]]

\* An object with no defined field
NoUpdates == << >>

----------------------------------------------------------------------------
(* More string functions *)

\* \s of a regular expression, on the characters of the model
WhiteSpace == {" ", "\n", "\t"}

\* String.prototype.trim
RECURSIVE trimStart(_)
trimStart(s) == IF Len(s) > 0 /\ s[1] \in WhiteSpace THEN trimStart(Tail(s)) ELSE s
RECURSIVE trimEnd(_)
trimEnd(s) ==
    IF Len(s) > 0 /\ s[Len(s)] \in WhiteSpace THEN trimEnd(SubSeq(s, 1, Len(s) - 1)) ELSE s
trim(s) == trimEnd(trimStart(s))

\* Mutant of substring: the whole string
substringWhole(s, n) == s

\* String.prototype.substring(0, n)
substring(s, n) == SubSeq(s, 1, IF Len(s) < n THEN Len(s) ELSE n)

\* String.prototype.split(/[-_]/): the parts between separators (possibly empty)
RECURSIVE splitFrom(_, _, _)
splitFrom(s, i, cur) ==
    IF i > Len(s) THEN << cur >>
    ELSE IF s[i] \in {"-", "_"} THEN << cur >> \o splitFrom(s, i + 1, << >>)
    ELSE splitFrom(s, i + 1, Append(cur, s[i]))
split(s) == splitFrom(s, 1, << >>)

\* The length of the longest prefix of s made of characters (not) in `set`
RECURSIVE spanIn(_, _)
spanIn(s, set) == IF Len(s) > 0 /\ s[1] \in set THEN 1 + spanIn(Tail(s), set) ELSE 0
RECURSIVE spanNotIn(_, _)
spanNotIn(s, set) == IF Len(s) > 0 /\ s[1] \notin set THEN 1 + spanNotIn(Tail(s), set) ELSE 0

----------------------------------------------------------------------------
(* Workspace routing: WorkspaceManager and AgentManager.matchWorkspace *)

NoName == << >>
NoPath == << >>

\* path.join(workspaceFolder, name)
PathOf(name) == <<"/">> \o name

\* WorkspaceManager.getWorkspaceDetails (names are unique at depth 1, so
\* listWorkspaces leaves displayName = name)
Workspace(name) == [name |-> name, displayName |-> name, path |-> PathOf(name)]

\* WorkspaceManager.listWorkspaces on the directory listing `dirs`
listWorkspaces(dirs) == [i \in DOMAIN dirs |-> Workspace(dirs[i])]

\* a.localeCompare(b) < 0 on the characters of workspace names: punctuation
\* before digits before letters, a proper prefix first
CollationOrder == <<"_", "-", "0", "1", "2", "3", "4", "5", "6", "7", "8", "9", "a", "b", "c", "d", "e", "f", "g", "h", "i", "j", "k", "l", "m", "n", "o", "p", "q", "r", "s", "t", "u", "v", "w", "x", "y", "z">>
Rank(c) == IF \E i \in DOMAIN CollationOrder : CollationOrder[i] = c
             THEN CHOOSE i \in DOMAIN CollationOrder : CollationOrder[i] = c
             ELSE 0
RECURSIVE localeLess(_, _)
localeLess(a, b) ==
    IF b = << >> THEN FALSE
    ELSE IF a = << >> THEN TRUE
    ELSE IF Rank(a[1]) # Rank(b[1]) THEN Rank(a[1]) < Rank(b[1])
    ELSE localeLess(Tail(a), Tail(b))

\* The directory listing after mkdir(name), in the order listWorkspaces sorts it
\* (sort by displayName.localeCompare)
InsertSorted(dirs, name) ==
    LET k == Cardinality({i \in DOMAIN dirs : localeLess(dirs[i], name)})
    IN SubSeq(dirs, 1, k) \o << name >> \o SubSeq(dirs, k + 1, Len(dirs))

\* WorkspaceManager.getWorkspace: a sequence of length 0 (null) or 1
getWorkspace(dirs, name) ==
    IF \E i \in DOMAIN dirs : dirs[i] = name THEN << Workspace(name) >> ELSE << >>

\* WorkspaceManager.generateRandomName: `${adj}-${noun}-${num}` for the indices
\* Math.random() gives (adj and noun from 1, num in 0..999)
adjectives ==
    << <<"b", "o", "l", "d">>,
       <<"b", "r", "i", "g", "h", "t">>,
       <<"c", "a", "l", "m">>,
       <<"d", "e", "f", "t">>,
       <<"e", "p", "i", "c">>,
       <<"f", "a", "i", "r">>,
       <<"g", "l", "a", "d">>,
       <<"h", "a", "l", "e">>,
       <<"k", "e", "e", "n">>,
       <<"l", "i", "t", "e">>,
       <<"n", "e", "a", "t">>,
       <<"p", "e", "r", "t">>,
       <<"s", "a", "g", "e">>,
       <<"t", "i", "d", "y">>,
       <<"v", "a", "s", "t">>,
       <<"w", "a", "r", "m">>,
       <<"a", "g", "i", "l", "e">>,
       <<"b", "r", "i", "s", "k">>,
       <<"c", "r", "i", "s", "p">>,
       <<"d", "a", "p", "p", "e", "r">> >>
nouns ==
    << <<"a", "r", "c">>,
       <<"b", "a", "y">>,
       <<"c", "o", "g">>,
       <<"d", "e", "w">>,
       <<"e", "l", "m">>,
       <<"f", "o", "x">>,
       <<"g", "e", "m">>,
       <<"h", "u", "t">>,
       <<"i", "v", "y">>,
       <<"j", "e", "t">>,
       <<"k", "i", "t">>,
       <<"l", "a", "b">>,
       <<"m", "a", "p">>,
       <<"n", "e", "t">>,
       <<"o", "a", "k">>,
       <<"p", "o", "d">>,
       <<"r", "a", "y">>,
       <<"s", "k", "y">>,
       <<"t", "i", "n">>,
       <<"w", "e", "b">> >>
Digits == <<"0", "1", "2", "3", "4", "5", "6", "7", "8", "9">>
RECURSIVE toString(_)
toString(num) ==
    IF num < 10 THEN << Digits[num + 1] >>
    ELSE Append(toString(num \div 10), Digits[(num % 10) + 1])
generateRandomName(adj, noun, num) ==
    adjectives[adj] \o <<"-">> \o nouns[noun] \o <<"-">> \o toString(num)

\* prompt.match(/^@(\S+)\s*(.*)$/): << >> for no match, else << <<group 1, group 2>> >>.
\* `.` matches no line terminator, so a match needs the rest of the prompt to be one line.
mentionMatch(prompt) ==
    IF Len(prompt) = 0 \/ prompt[1] # "@" THEN << >>
    ELSE LET afterAt == Tail(prompt)
             n == spanNotIn(afterAt, WhiteSpace)
             afterName == SubSeq(afterAt, n + 1, Len(afterAt))
             w == spanIn(afterName, WhiteSpace)
             rest == SubSeq(afterName, w + 1, Len(afterName))
         IN IF n = 0 \/ \E i \in DOMAIN rest : rest[i] = "\n" THEN << >>
            ELSE << << SubSeq(afterAt, 1, n), rest >> >>

newProjectKeywords ==
    << <<"c", "r", "e", "a", "t", "e", " ", "a", " ", "n", "e", "w">>,
       <<"s", "t", "a", "r", "t", " ", "a", " ", "n", "e", "w">>,
       <<"b", "u", "i", "l", "d", " ", "a", " ", "n", "e", "w">>,
       <<"m", "a", "k", "e", " ", "a", " ", "n", "e", "w">>,
       <<"i", "n", "i", "t", "i", "a", "l", "i", "z", "e">>,
       <<"s", "c", "a", "f", "f", "o", "l", "d">>,
       <<"b", "o", "o", "t", "s", "t", "r", "a", "p">>,
       <<"s", "e", "t", " ", "u", "p", " ", "a", " ", "n", "e", "w">>,
       <<"n", "e", "w", " ", "p", "r", "o", "j", "e", "c", "t">>,
       <<"n", "e", "w", " ", "a", "p", "p">>,
       <<"n", "e", "w", " ", "a", "p", "p", "l", "i", "c", "a", "t", "i", "o", "n">>,
       <<"n", "e", "w", " ", "r", "e", "p", "o">> >>

\* AgentManager.detectNewProjectIntent
detectNewProjectIntent(prompt) ==
    \E k \in DOMAIN newProjectKeywords : includes(toLowerCase(prompt), newProjectKeywords[k])

\* Confidence values are in tenths: 7 is 0.7.
ConfidenceThreshold == 7
FallbackConfidence == 8

\* The keyword tier of matchWorkspace: the first workspace, in list order, whose
\* name parts occur in the prompt; 0 if none.
RECURSIVE CountIncluded(_, _)
CountIncluded(parts, promptLower) ==
    IF parts = << >> THEN 0
    ELSE (IF includes(promptLower, Head(parts)) THEN 1 ELSE 0)
         + CountIncluded(Tail(parts), promptLower)

\* Mutant of KeywordQualifies: one part of several found in the prompt is enough
KeywordQualifiesAnyPart(name, prompt) ==
    LET promptLower == toLowerCase(prompt)
        nameParts == split(toLowerCase(name))
        matchCount == CountIncluded(nameParts, promptLower)
    IN matchCount >= 1 \/ (Len(nameParts) = 1 /\ includes(promptLower, nameParts[1]))

KeywordQualifies(name, prompt) ==
    LET promptLower == toLowerCase(prompt)
        nameParts == split(toLowerCase(name))
        matchCount == CountIncluded(nameParts, promptLower)
    IN matchCount >= 2 \/ (Len(nameParts) = 1 /\ includes(promptLower, nameParts[1]))

KeywordMatch(prompt, workspaces) ==
    IF \E i \in DOMAIN workspaces : KeywordQualifies(workspaces[i].name, prompt)
      THEN CHOOSE i \in DOMAIN workspaces :
             /\ KeywordQualifies(workspaces[i].name, prompt)
             /\ \A j \in DOMAIN workspaces :
                  KeywordQualifies(workspaces[j].name, prompt) => i <= j
      ELSE 0

\* workspaces.find(w => w.name === name): a sequence of length 0 or 1
FindWorkspace(workspaces, name) ==
    IF \E i \in DOMAIN workspaces : workspaces[i].name = name
      THEN << workspaces[CHOOSE i \in DOMAIN workspaces :
                 /\ workspaces[i].name = name
                 /\ \A j \in DOMAIN workspaces : workspaces[j].name = name => i <= j] >>
      ELSE << >>

\* Mutant of LlmTier: an error of the classification step ends the call with
\* no workspace instead of going on to the keyword tier
LlmTierErrorEndsCall(workspaces, llm) ==
    IF llm.kind = "json"
      THEN << [workspace |-> IF "workspace" \in DOMAIN llm.parsed
                               THEN FindWorkspace(workspaces, llm.parsed.workspace)
                               ELSE << >>,
               confidence |-> IF "confidence" \in DOMAIN llm.parsed
                                THEN llm.parsed.confidence ELSE 0,
               reason |-> "llm"] >>
    ELSE IF llm.kind = "noJson" THEN << >>
    ELSE << [workspace |-> << >>, confidence |-> 0, reason |-> "error"] >>

\* The try block of matchWorkspace with its catch: the result it returns, as a
\* sequence of length 1, or the empty sequence when it returns nothing (no
\* {...} in the answer, or an exception, which the catch block swallows).
\* `llm` is what the classification step did: kind "initError"
\* (matchClient.init rejects), "chatError" (the stream throws), "noJson" (the
\* answer holds no {...}), "badJson" (JSON.parse throws) or "json" with the
\* parsed object in `parsed` (a map that may lack "workspace" and "confidence").
LlmTier(workspaces, llm) ==
    IF llm.kind = "json"
      THEN << [workspace |-> IF "workspace" \in DOMAIN llm.parsed
                               THEN FindWorkspace(workspaces, llm.parsed.workspace)
                               ELSE << >>,
               confidence |-> IF "confidence" \in DOMAIN llm.parsed
                                THEN llm.parsed.confidence ELSE 0,
               reason |-> "llm"] >>
    ELSE << >>

\* AgentManager.matchWorkspace.
\* The result's workspace is a sequence of length 0 (null) or 1.
matchWorkspace(prompt, dirs, llm) ==
    LET workspaces == listWorkspaces(dirs)
        k == KeywordMatch(prompt, workspaces)
        tier == LlmTier(workspaces, llm)
    IN  IF Len(workspaces) = 0
          THEN [workspace |-> << >>, confidence |-> 0, reason |-> "No workspaces available"]
        ELSE IF tier # << >>
          THEN tier[1]
        ELSE IF k # 0
          THEN [workspace |-> << workspaces[k] >>, confidence |-> FallbackConfidence,
                reason |-> "Matched workspace name in prompt"]
        ELSE [workspace |-> << >>, confidence |-> 0, reason |-> "No confident match found"]

----------------------------------------------------------------------------
(* AgentManager: the session registry and the turn driver *)

DefaultTitle == <<"N", "e", "w", " ", "c", "o", "n", "v", "e", "r", "s", "a", "t", "i", "o", "n">>
TitleCap == 50

\* A fresh ActiveSession (createSession and the lazy rehydration of sendMessage).
\* copilotClient: "none" (null), "created" (constructed, its SDK session not
\* set: init pending or failed) or "ready" (init done).
NewActiveSession ==
    [copilotClient |-> "none", currentMessageId |-> NoId, thinking |-> << >>,
     toolCalls |-> << >>, fileChanges |-> << >>, content |-> << >>, aborted |-> FALSE]

\* The locals and position of one sendMessage invocation.
\* pc: "init" (awaiting copilotClient.init), "streaming" (in the for-await loop,
\* subscribed to the SDK session), "title" (awaiting generateTitle), "done",
\* "failed" (the catch block ran).  events/done are the queue and flag of the
\* chat() generator.  abortSeen records that abortSession set `aborted` while
\* this invocation was streaming, abortedEmpty that the content buffer was
\* empty then, titleFailed that the catch block of generateTitle ran for this
\* invocation (history only, the code has no such fields).  detached: the
\* local `active` of the invocation once stopSession has taken the object out
\* of activeSessions (a sequence of length 1; empty while the object is the one
\* in the map).
NewTurn(id, pc) ==
    [pc |-> pc, assistantMessageId |-> id, events |-> << >>, done |-> FALSE,
     abortSeen |-> FALSE, abortedEmpty |-> FALSE, titleFailed |-> FALSE,
     detached |-> << >>]

\* The object the local `active` of a sendMessage invocation refers to
ActiveOf(s, k) ==
    IF turns[s][k].detached # << >> THEN turns[s][k].detached[1] ELSE activeSessions[s]

SessionUpdated(row) == [event |-> "session:updated", session |-> row]
AgentError(msg) == [event |-> "agent:error", error |-> msg]

\* Mutant of CatchBlock: the session row is left as it is
CatchBlockKeepsStatus(rows, s) == rows

\* The catch block of sendMessage
CatchBlock(rows, s) == UpdateSessionRows(rows, s, [status |-> "error"])

\* sendMessage from its first line to its first await, on the registry
\* `actives` and sessions table `rows` (those of the caller's state).
StartTurn(s, content, rows, actives) ==
    LET n == uuidCount[s]
        userMessage == addMessage(uuid(s, n + 1), "user", content)
        assistantMessageId == uuid(s, n + 2)
        assistantMessage == addMessage(assistantMessageId, "assistant", << >>)
        rows1 == UpdateSessionRows(rows, s, NoUpdates)
        active == [actives[s] EXCEPT !.currentMessageId = assistantMessageId,
                                     !.thinking = << >>, !.toolCalls = << >>,
                                     !.fileChanges = << >>, !.content = << >>,
                                     !.aborted = FALSE]
        client == active.copilotClient
        updated == IF s \in DOMAIN rows1 THEN << SessionUpdated(rows1[s]) >> ELSE << >>
    IN  /\ uuidCount' = [uuidCount EXCEPT ![s] = n + 2]
        /\ dbMessages' = [dbMessages EXCEPT ![s] = @ \o << userMessage, assistantMessage >>]
        /\ IF client = "none" THEN
              \* new CopilotClient(...); await init()
              /\ activeSessions' = (s :> [active EXCEPT !.copilotClient = "created"]) @@ actives
              /\ turns' = [turns EXCEPT ![s] = Append(@, NewTurn(assistantMessageId, "init"))]
              /\ dbSessions' = rows1
              /\ emitted' = [emitted EXCEPT ![s] = @ \o updated]
              /\ UNCHANGED sdkPending
           ELSE IF client = "created" THEN
              \* chat() throws 'CopilotClient not initialized'
              /\ activeSessions' = (s :> active) @@ actives
              /\ turns' = [turns EXCEPT ![s] = Append(@, NewTurn(assistantMessageId, "failed"))]
              /\ dbSessions' = CatchBlock(rows1, s)
              /\ emitted' = [emitted EXCEPT ![s] =
                               @ \o updated \o << AgentError("CopilotClient not initialized") >>]
              /\ UNCHANGED sdkPending
           ELSE
              \* chat(): subscribe, send the prompt, wait for events
              /\ activeSessions' = (s :> active) @@ actives
              /\ turns' = [turns EXCEPT ![s] = Append(@, NewTurn(assistantMessageId, "streaming"))]
              /\ dbSessions' = rows1
              /\ emitted' = [emitted EXCEPT ![s] = @ \o updated]
              /\ sdkPending' = [sdkPending EXCEPT ![s] = @ + 1]

TotalTurns == Len(turns["s1"]) + Len(turns["s2"])

\* Mutant of Accepted: any named workspace is accepted, whatever the confidence
AcceptedAnyConfidence(match) == match.workspace # << >>

\* createSession's test of matchWorkspace's result
Accepted(match) == match.workspace # << >> /\ match.confidence > ConfidenceThreshold

\* How a call settled for its caller: fulfilled with a value, or rejected
\* with an error message
Returned(call, value) == [call |-> call, ok |-> TRUE, value |-> value]
Rejected(call, message) == [call |-> call, ok |-> FALSE, error |-> message]

\* process.execPath when the application starts (the Electron binary), and
\* the values config.nodePath can hold (unset, or the path of a Node.js binary)
ElectronPath == "electron"
NodePaths == {NULL, "node18", "node20"}

\* The process before any init() call.  calls: per CopilotClient.init() call
\* its position (new, awaiting createSession, or settled) and its local
\* savedExecPath
NewProcess ==
    [execPath |-> ElectronPath,
     calls |-> [c \in 1..MaxInits |-> [pc |-> "new", savedExecPath |-> NULL]]]

\* CopilotClient.init from its start to await this.client.createSession(...)
initStart(p, c, nodePath) ==
    [p EXCEPT !.calls[c] = [pc |-> "awaiting", savedExecPath |-> p.execPath],
              !.execPath = IF nodePath # NULL THEN nodePath ELSE @]

\* CopilotClient.init after createSession resolved
initResolved(p, c) ==
    [p EXCEPT !.execPath = p.calls[c].savedExecPath, !.calls[c].pc = "ready"]

\* createSession rejected: init() throws at the await
initRejected(p, c) == [p EXCEPT !.calls[c].pc = "failed"]

hostVars ==
    <<dbSessions, dbMessages, dbSnapshots, activeSessions, viewedSessionId, turns,
      sdkPending, sdkCount, uuidCount, emitted, fsWorkspaces, lastMatch, lastMatchCall,
      lastResult, sdkLog, archivedFrom, renderer, chat, opLog, listeners, adapters>>

\* A client is constructed with the nodePath of the configuration and its
\* init() is called (by sendMessage, matchWorkspace or generateTitle)
ClientInit(c, nodePath) ==
    /\ process.calls[c].pc = "new"
    /\ process' = initStart(process, c, nodePath)
    /\ UNCHANGED hostVars

ClientInitResolves(c) ==
    /\ process.calls[c].pc = "awaiting"
    /\ process' = initResolved(process, c)
    /\ UNCHANGED hostVars

ClientInitRejects(c) ==
    /\ process.calls[c].pc = "awaiting"
    /\ process' = initRejected(process, c)
    /\ UNCHANGED hostVars

\* No CopilotClient has been initialized, and stopAll has not been called.
\* An adapter is named by what it was made for: <<"session", s, k>> by turn k
\* of session s, <<"title", s, k>> by generateTitle in that turn (k = 0:
\* regenerateTitle), <<"match", s, 0>> by matchWorkspace for createSession
\* of s (s = NULL: the workspace:match call).  keys: the session ids stopAll
\* has still to visit.
NoAdapters == [initialized |-> {}, stopped |-> {}, stopAll |-> "idle", keys |-> {}]

\* await client.init() has resolved
Initialized(a, kind, s, k) == [a EXCEPT !.initialized = @ \cup {<<kind, s, k>>}]

\* await active.copilotClient.stop() for the client of session s
Stopped(a, s) ==
    [a EXCEPT !.stopped = @ \cup {x \in a.initialized : x[1] = "session" /\ x[2] = s}]

\* titleClient.init() resolved: the outcome is an answer, or a failure after
\* some text arrived
TitleClientReady(outcome) == ~outcome.error \/ outcome.text # << >>

\* matchWorkspace got to matchClient.init() and it resolved
MatchClientReady(dirs, llm) == Len(listWorkspaces(dirs)) > 0 /\ llm.kind # "initError"

\* createSession calls matchWorkspace when there is neither a new-project
\* intent nor a workspace name
MatchedFor(a, s, workspaceHint, prompt0, llm) ==
    LET m == mentionMatch(prompt0)
        workspaceName1 == IF m # << >> THEN m[1][1] ELSE workspaceHint
        prompt == IF m # << >> /\ m[1][2] # << >> THEN m[1][2] ELSE prompt0
    IN IF workspaceName1 = NoName /\ ~detectNewProjectIntent(prompt)
            /\ MatchClientReady(fsWorkspaces, llm)
         THEN Initialized(a, "match", s, 0)
         ELSE a

\* AgentManager.createSession with the routing inputs: the hint, the prompt,
\* the classification step's answer and the name generateRandomName() draws.
CreateSession(s, workspaceHint, prompt0, llm, newName) ==
    /\ s \notin DOMAIN dbSessions
    /\ TotalTurns < MaxTurns
    /\ LET m == mentionMatch(prompt0)
           workspaceName1 == IF m # << >> THEN m[1][1] ELSE workspaceHint
           prompt == IF m # << >> /\ m[1][2] # << >> THEN m[1][2] ELSE prompt0
           isNewProject == detectNewProjectIntent(prompt)
           create == isNewProject /\ workspaceName1 = NoName
           \* WorkspaceManager.createWorkspace: mkdir unless the directory exists
           dirs == IF create /\ ~(\E i \in DOMAIN fsWorkspaces : fsWorkspaces[i] = newName)
                     THEN InsertSorted(fsWorkspaces, newName) ELSE fsWorkspaces
           match == matchWorkspace(prompt, fsWorkspaces, llm)
           accepted == Accepted(match)
           workspace == IF create THEN getWorkspace(dirs, newName)
                        ELSE IF workspaceName1 # NoName THEN getWorkspace(dirs, workspaceName1)
                        ELSE IF accepted THEN match.workspace
                        ELSE << >>
           workspacePath == IF create THEN PathOf(newName)
                            ELSE IF workspace # << >> THEN workspace[1].path
                            ELSE NoPath
           workspaceName == IF create THEN newName
                            ELSE IF workspaceName1 # NoName THEN workspaceName1
                            ELSE IF accepted THEN match.workspace[1].displayName
                            ELSE NoName
           session == [id |-> s, title |-> DefaultTitle,
                       workspace |-> IF workspace # << >> /\ workspace[1].displayName # << >>
                                       THEN workspace[1].displayName ELSE workspaceName,
                       workspacePath |-> workspacePath,
                       hasUnread |-> FALSE, status |-> "active", updatedAt |-> 0]
       IN /\ fsWorkspaces' = dirs
          /\ StartTurn(s, prompt, (s :> session) @@ dbSessions,
                       (s :> NewActiveSession) @@ activeSessions)
          \* sendMessage is not awaited: the session object is returned once
          \* sendMessage has reached its first await
          /\ lastResult' = [lastResult EXCEPT ![s] = << Returned("createSession", session) >>]
    /\ UNCHANGED <<dbSnapshots, viewedSessionId, sdkCount, lastMatch, lastMatchCall, sdkLog, archivedFrom, renderer, chat, opLog, listeners, process>>
    /\ adapters' = MatchedFor(adapters, s, workspaceHint, prompt0, llm)

\* Mutant of SendMessage: the ActiveSession is registered before the session
\* row is looked up
SendMessageRegistersFirst(s, content) ==
    IF s \notin DOMAIN activeSessions /\ s \notin DOMAIN dbSessions
      THEN /\ lastResult' = [lastResult EXCEPT
                               ![s] = << Rejected("sendMessage", "Session not found") >>]
           /\ activeSessions' = (s :> NewActiveSession) @@ activeSessions
           /\ UNCHANGED <<dbSessions, dbMessages, dbSnapshots,
                          viewedSessionId, turns, sdkPending, sdkCount, uuidCount, emitted,
                          fsWorkspaces, lastMatch, lastMatchCall, sdkLog, archivedFrom, renderer, chat, opLog, listeners, adapters, process>>
      ELSE /\ TotalTurns < MaxTurns
           /\ StartTurn(s, content, dbSessions,
                        IF s \in DOMAIN activeSessions THEN activeSessions
                        ELSE (s :> NewActiveSession) @@ activeSessions)
           /\ lastResult' = [lastResult EXCEPT ![s] = << >>]
           /\ UNCHANGED <<dbSnapshots, viewedSessionId, sdkCount, fsWorkspaces, lastMatch,
                          lastMatchCall, sdkLog, archivedFrom, renderer, chat, opLog, listeners, adapters, process>>

\* AgentManager.sendMessage, to its first await.  With no ActiveSession and
\* no session row it throws 'Session not found'; otherwise its promise is
\* pending while the turn runs.
SendMessage(s, content) ==
    IF s \notin DOMAIN activeSessions /\ s \notin DOMAIN dbSessions
      THEN /\ lastResult' = [lastResult EXCEPT
                               ![s] = << Rejected("sendMessage", "Session not found") >>]
           /\ UNCHANGED <<dbSessions, dbMessages, dbSnapshots, activeSessions,
                          viewedSessionId, turns, sdkPending, sdkCount, uuidCount, emitted,
                          fsWorkspaces, lastMatch, lastMatchCall, sdkLog, archivedFrom, renderer, chat, opLog, listeners, adapters, process>>
      ELSE /\ TotalTurns < MaxTurns
           /\ StartTurn(s, content, dbSessions,
                        IF s \in DOMAIN activeSessions THEN activeSessions
                        ELSE (s :> NewActiveSession) @@ activeSessions)
           /\ lastResult' = [lastResult EXCEPT ![s] = << >>]
           /\ UNCHANGED <<dbSnapshots, viewedSessionId, sdkCount, fsWorkspaces, lastMatch,
                          lastMatchCall, sdkLog, archivedFrom, renderer, chat, opLog, listeners, adapters, process>>


\* copilotClient.init() resolves: the client holds its SDK session, and
\* sendMessage goes on into chat(): subscribe, send the prompt, wait.
InitOk(s, k) ==
    /\ k \in DOMAIN turns[s]
    /\ turns[s][k].pc = "init"
    /\ turns[s][k].detached = << >>
    /\ turns' = [turns EXCEPT ![s][k].pc = "streaming"]
    /\ activeSessions' = [activeSessions EXCEPT ![s].copilotClient = "ready"]
    /\ sdkPending' = [sdkPending EXCEPT ![s] = @ + 1]
    /\ UNCHANGED <<dbSessions, dbMessages, dbSnapshots, viewedSessionId, sdkCount,
                   uuidCount, emitted, fsWorkspaces, lastMatch, lastMatchCall, lastResult, sdkLog, archivedFrom, renderer, chat, opLog, listeners, process>>
    /\ adapters' = Initialized(adapters, "session", s, k)

\* Mutant of InitFail: the failure of the turn rejects the createSession call
\* instead of being reported by agent:error
InitFailRejectsCreate(s, k) ==
    /\ k \in DOMAIN turns[s]
    /\ turns[s][k].pc = "init"
    /\ turns' = [turns EXCEPT ![s][k].pc = "failed"]
    /\ lastResult' = [lastResult EXCEPT ![s] = << Rejected("createSession", "init failed") >>]
    /\ dbSessions' = CatchBlock(dbSessions, s)
    /\ UNCHANGED <<dbMessages, dbSnapshots, activeSessions, viewedSessionId, sdkPending,
                   sdkCount, uuidCount, emitted, fsWorkspaces, lastMatch, lastMatchCall, sdkLog, archivedFrom, renderer, chat, opLog, listeners, adapters, process>>

\* copilotClient.init() rejects: the catch block of sendMessage.
\* active.copilotClient keeps the client that has no SDK session.
InitFail(s, k) ==
    /\ k \in DOMAIN turns[s]
    /\ turns[s][k].pc = "init"
    /\ turns' = [turns EXCEPT ![s][k].pc = "failed"]
    /\ emitted' = [emitted EXCEPT ![s] = Append(@, AgentError("init failed"))]
    /\ dbSessions' = CatchBlock(dbSessions, s)
    /\ UNCHANGED <<dbMessages, dbSnapshots, activeSessions, viewedSessionId, sdkPending,
                   sdkCount, uuidCount, fsWorkspaces, lastMatch, lastMatchCall, lastResult, sdkLog, archivedFrom, renderer, chat, opLog, listeners, adapters, process>>

\* The chat() generators subscribed to the SDK session of s
\* The later copy of CopilotClient.init races createSession against a timer:
\* when the timer fires first, init() rejects with its own message and
\* sendMessage runs its catch block.  (The copy of CopilotClient that takes
\* the nodePath option AgentManager passes awaits createSession alone.)
InitTimeout(s, k) ==
    /\ k \in DOMAIN turns[s]
    /\ turns[s][k].pc = "init"
    /\ turns' = [turns EXCEPT ![s][k].pc = "failed"]
    /\ emitted' = [emitted EXCEPT ![s] =
                     Append(@, AgentError("Copilot CLI failed to start within 30 seconds"))]
    /\ dbSessions' = CatchBlock(dbSessions, s)
    /\ UNCHANGED <<dbMessages, dbSnapshots, activeSessions, viewedSessionId, sdkPending,
                   sdkCount, uuidCount, fsWorkspaces, lastMatch, lastMatchCall, lastResult, sdkLog, archivedFrom, renderer, chat, opLog, listeners, adapters, process>>

Subscribed(s, k) == turns[s][k].pc = "streaming"

\* The SDK session of s delivers an event to every subscriber's callback:
\* events.push(normalized) when normalizeEvent gives one.
SdkEmit(s, event, max) ==
    /\ sdkPending[s] > 0
    /\ sdkCount < max
    /\ sdkCount' = sdkCount + 1
    /\ turns' = [turns EXCEPT ![s] =
                   [k \in DOMAIN @ |->
                      IF Subscribed(s, k)
                        THEN [@[k] EXCEPT !.events = @ \o normalizeEvent(event)]
                        ELSE @[k]]]
    /\ sdkLog' = [sdkLog EXCEPT ![s] = IF \E k \in DOMAIN turns[s] : Subscribed(s, k)
                                         THEN @ \o normalizeEvent(event) ELSE @]
    /\ UNCHANGED <<dbSessions, dbMessages, dbSnapshots, activeSessions, viewedSessionId,
                   sdkPending, uuidCount, emitted, fsWorkspaces, lastMatch, lastMatchCall,
                   lastResult, archivedFrom, renderer, chat, opLog, listeners, adapters, process>>

\* The SDK session of s delivers session.idle: done = true in every subscriber.
SdkIdle(s) ==
    /\ sdkPending[s] > 0
    /\ sdkPending' = [sdkPending EXCEPT ![s] = @ - 1]
    /\ turns' = [turns EXCEPT ![s] =
                   [k \in DOMAIN @ |->
                      IF Subscribed(s, k) THEN [@[k] EXCEPT !.done = TRUE] ELSE @[k]]]
    /\ UNCHANGED <<dbSessions, dbMessages, dbSnapshots, activeSessions, viewedSessionId,
                   sdkCount, uuidCount, emitted, fsWorkspaces, lastMatch, lastMatchCall, lastResult, sdkLog, archivedFrom, renderer, chat, opLog, listeners, adapters, process>>

\* Mutant of Consume: the event is applied to one accumulator shared by all
\* sessions (every ActiveSession gets it)
ConsumeSharedAccumulator(s, k) ==
    /\ k \in DOMAIN turns[s]
    /\ turns[s][k].pc = "streaming"
    /\ turns[s][k].events # << >>
    /\ turns' = [turns EXCEPT ![s][k].events = Tail(@)]
    /\ activeSessions' =
         [o \in DOMAIN activeSessions |->
            handleStreamEvent(activeSessions[o], Head(turns[s][k].events)).active]
    /\ emitted' = [emitted EXCEPT ![s] =
                     @ \o (IF s \in DOMAIN activeSessions
                             THEN handleStreamEvent(activeSessions[s],
                                                    Head(turns[s][k].events)).out
                             ELSE << >>)]
    /\ UNCHANGED <<dbSessions, dbMessages, dbSnapshots, viewedSessionId, sdkPending,
                   sdkCount, uuidCount, fsWorkspaces, lastMatch, lastMatchCall, lastResult, sdkLog, archivedFrom, renderer, chat, opLog, listeners, adapters, process>>

\* Mutant of Consume: handleStreamEvent works on the local `active` of
\* sendMessage instead of looking the session up in the map
ConsumeIntoLocal(s, k) ==
    /\ k \in DOMAIN turns[s]
    /\ turns[s][k].pc = "streaming"
    /\ turns[s][k].events # << >>
    /\ LET r == handleStreamEvent(ActiveOf(s, k), Head(turns[s][k].events))
       IN /\ emitted' = [emitted EXCEPT ![s] = @ \o r.out]
          /\ IF turns[s][k].detached = << >>
               THEN /\ activeSessions' = [activeSessions EXCEPT ![s] = r.active]
                    /\ turns' = [turns EXCEPT ![s][k].events = Tail(@)]
               ELSE /\ turns' = [turns EXCEPT ![s][k].events = Tail(@),
                                              ![s][k].detached = << r.active >>]
                    /\ UNCHANGED activeSessions
    /\ UNCHANGED <<dbSessions, dbMessages, dbSnapshots, viewedSessionId, sdkPending,
                   sdkCount, uuidCount, fsWorkspaces, lastMatch, lastMatchCall, lastResult, sdkLog, archivedFrom, renderer, chat, opLog, listeners, adapters, process>>

\* One iteration of the for-await loop of sendMessage: chat() yields the head
\* of its queue and handleStreamEvent(sessionId, event) runs.
Consume(s, k) ==
    /\ k \in DOMAIN turns[s]
    /\ turns[s][k].pc = "streaming"
    /\ turns[s][k].events # << >>
    /\ turns' = [turns EXCEPT ![s][k].events = Tail(@)]
    /\ IF s \in DOMAIN activeSessions
         THEN LET r == handleStreamEvent(activeSessions[s], Head(turns[s][k].events))
              IN /\ activeSessions' = [activeSessions EXCEPT ![s] = r.active]
                 /\ emitted' = [emitted EXCEPT ![s] = @ \o r.out]
         ELSE UNCHANGED <<activeSessions, emitted>>
    /\ UNCHANGED <<dbSessions, dbMessages, dbSnapshots, viewedSessionId, sdkPending,
                   sdkCount, uuidCount, fsWorkspaces, lastMatch, lastMatchCall, lastResult, sdkLog, archivedFrom, renderer, chat, opLog, listeners, adapters, process>>

\* The agent:done event of sendMessage, read from the ActiveSession at that time
AgentDone(messageId, a) ==
    [event |-> "agent:done", messageId |-> messageId, thinking |-> a.thinking,
     content |-> a.content, toolCalls |-> a.toolCalls, fileChanges |-> a.fileChanges,
     aborted |-> a.aborted]

\* Mutant of EmitDone: hasUnread is set whatever session is viewed
EmitDoneAlwaysUnread(s, k, rows, log) ==
    LET rows1 == UpdateSessionRows(rows, s, [hasUnread |-> TRUE])
    IN /\ dbSessions' = rows1
       /\ emitted' = [emitted EXCEPT ![s] =
                        log \o << AgentDone(turns[s][k].assistantMessageId, ActiveOf(s, k)) >>
                            \o (IF s \in DOMAIN rows1 THEN << SessionUpdated(rows1[s]) >>
                                ELSE << >>)]

\* sendMessage from emit('agent:done') to the end of the try block
EmitDone(s, k, rows, log) ==
    LET rows1 == UpdateSessionRows(rows, s,
                    IF s # viewedSessionId THEN [hasUnread |-> TRUE] ELSE NoUpdates)
    IN /\ dbSessions' = rows1
       /\ emitted' = [emitted EXCEPT ![s] =
                        log \o << AgentDone(turns[s][k].assistantMessageId, ActiveOf(s, k)) >>
                            \o (IF s \in DOMAIN rows1 THEN << SessionUpdated(rows1[s]) >>
                                ELSE << >>)]

\* Mutant of FinalUpdates: the file changes are left out of the update
FinalUpdatesWithoutFileChanges(a) ==
    [content |-> a.content]
    @@ (IF a.thinking # << >> THEN [thinking |-> a.thinking] ELSE << >>)
    @@ (IF Len(a.toolCalls) > 0 THEN [toolCalls |-> a.toolCalls] ELSE << >>)

\* The fields sendMessage passes to updateMessage: an empty thinking, toolCalls
\* or fileChanges is passed as undefined
FinalUpdates(a) ==
    [content |-> a.content]
    @@ (IF a.thinking # << >> THEN [thinking |-> a.thinking] ELSE << >>)
    @@ (IF Len(a.toolCalls) > 0 THEN [toolCalls |-> a.toolCalls] ELSE << >>)
    @@ (IF Len(a.fileChanges) > 0 THEN [fileChanges |-> a.fileChanges] ELSE << >>)

\* One step of the finalization of the turn whose assistant message is id
Op(op, id) == [op |-> op, id |-> id]

\* Mutant of FinalizeOps: the snapshots are saved before the message is updated
FinalizeOpsSnapshotsFirst(id, a) ==
    [i \in DOMAIN a.fileChanges |-> Op("saveFileSnapshot", id)]
    \o << Op("updateMessage", id) >>

\* sendMessage after the for-await loop: updateMessage, then one
\* saveFileSnapshot for each of active.fileChanges
FinalizeOps(id, a) ==
    << Op("updateMessage", id) >>
    \o [i \in DOMAIN a.fileChanges |-> Op("saveFileSnapshot", id)]

\* sendMessage from emit('agent:done') on: the event, the updateSession call,
\* and session:updated when getSession finds the row
DoneOps(id, found) ==
    << Op("agent:done", id), Op("updateSession", id) >>
    \o (IF found THEN << Op("session:updated", id) >> ELSE << >>)

\* generateTitle runs when this holds of getMessages(sessionId)
TitleDue(messages) == Len(messages) <= 2 \/ Len(messages) % 10 = 0

\* The first of the changes that saveFileSnapshot cannot insert, or 0:
\* file_path is NOT NULL and change.path is bound as it is
FirstRejected(changes) ==
    IF \E i \in DOMAIN changes : changes[i].path = NULL
      THEN CHOOSE i \in DOMAIN changes :
             /\ changes[i].path = NULL
             /\ \A j \in DOMAIN changes : changes[j].path = NULL => i <= j
      ELSE 0

\* chat() has seen session.idle and its queue is empty: it returns and
\* unsubscribes, the for-await loop ends, and sendMessage finalizes the message
\* and saves the snapshots; it then awaits generateTitle, or goes on to agent:done.
Finalize(s, k) ==
    /\ k \in DOMAIN turns[s]
    /\ turns[s][k].pc = "streaming"
    /\ turns[s][k].done
    /\ turns[s][k].events = << >>
    /\ LET a == ActiveOf(s, k)
           id == turns[s][k].assistantMessageId
           messages == UpdateMessageRows(dbMessages[s], id, FinalUpdates(a))
           rejected == FirstRejected(a.fileChanges)
           saved == IF rejected = 0 THEN a.fileChanges
                    ELSE SubSeq(a.fileChanges, 1, rejected - 1)
       IN /\ dbMessages' = [dbMessages EXCEPT ![s] = messages]
          /\ dbSnapshots' = [dbSnapshots EXCEPT ![s] =
                               @ \o [i \in DOMAIN saved |->
                                       saveFileSnapshot(s, id, saved[i])]]
          /\ IF rejected # 0
               THEN \* the insert throws: the catch block of sendMessage
                    /\ turns' = [turns EXCEPT ![s][k].pc = "failed"]
                    /\ opLog' = [opLog EXCEPT ![s] =
                                   @ \o FinalizeOps(id, [a EXCEPT !.fileChanges = saved])]
                    /\ emitted' = [emitted EXCEPT ![s] =
                                     Append(@, AgentError("saveFileSnapshot failed"))]
                    /\ dbSessions' = CatchBlock(dbSessions, s)
             ELSE IF TitleDue(messages)
               THEN /\ turns' = [turns EXCEPT ![s][k].pc = "title"]
                    /\ opLog' = [opLog EXCEPT ![s] =
                                   @ \o FinalizeOps(id, a) \o << Op("generateTitle", id) >>]
                    /\ UNCHANGED <<dbSessions, emitted>>
               ELSE /\ turns' = [turns EXCEPT ![s][k].pc = "done"]
                    /\ opLog' = [opLog EXCEPT ![s] =
                                   @ \o FinalizeOps(id, a) \o DoneOps(id, s \in DOMAIN dbSessions)]
                    /\ EmitDone(s, k, dbSessions, emitted[s])
    /\ UNCHANGED <<activeSessions, viewedSessionId, sdkPending, sdkCount, uuidCount,
                   fsWorkspaces, lastMatch, lastMatchCall, lastResult, sdkLog, archivedFrom, renderer, chat, listeners, adapters, process>>

\* What the title client can do: fail (in init, or in chat after some text),
\* or answer with a text
TitleOutcomes ==
    { [error |-> TRUE, text |-> << >>],
      [error |-> TRUE, text |-> <<"T">>],
      [error |-> FALSE, text |-> << >>],
      [error |-> FALSE, text |-> <<" ", "T">>] }

\* Mutant of NewTitle: the text received before a failure is used as the title
NewTitleDespiteError(outcome) ==
    LET title == substring(trim(outcome.text), TitleCap)
    IN IF title # << >> THEN << title >> ELSE << >>

\* The try block of generateTitle / regenerateTitle: the title to store, as a
\* sequence of length 1, or the empty sequence when the client failed (the
\* catch block) or the trimmed text is empty
NewTitle(outcome) ==
    IF outcome.error THEN << >>
    ELSE LET title == substring(trim(outcome.text), TitleCap)
         IN IF title # << >> THEN << title >> ELSE << >>

TitleUpdated(title) == [event |-> "session:title-updated", title |-> title]

\* generateTitle ends (its own catch swallows a failure), and sendMessage goes
\* on to agent:done.
TitleEnd(s, k, outcome) ==
    /\ k \in DOMAIN turns[s]
    /\ turns[s][k].pc = "title"
    /\ turns' = [turns EXCEPT ![s][k].pc = "done", ![s][k].titleFailed = outcome.error]
    /\ LET title == NewTitle(outcome)
           rows == IF title # << >>
                     THEN UpdateSessionRows(dbSessions, s, [title |-> title[1]])
                     ELSE dbSessions
           log == IF title # << >> THEN Append(emitted[s], TitleUpdated(title[1]))
                  ELSE emitted[s]
       IN EmitDone(s, k, rows, log)
    /\ opLog' = [opLog EXCEPT ![s] =
                   @ \o DoneOps(turns[s][k].assistantMessageId, s \in DOMAIN dbSessions)]
    /\ UNCHANGED <<dbMessages, dbSnapshots, activeSessions, viewedSessionId, sdkPending,
                   sdkCount, uuidCount, fsWorkspaces, lastMatch, lastMatchCall, lastResult, sdkLog, archivedFrom, renderer, chat, listeners, process>>
    /\ adapters' = IF TitleClientReady(outcome)
                    THEN Initialized(adapters, "title", s, k) ELSE adapters

\* AgentManager.abortSession: with a client, aborted = true and the SDK session
\* is asked to abort (advisory: the SDK goes on as it likes).  Without one this
\* is a no-op.
AbortSessionInMain(s) ==
    IF s \in DOMAIN activeSessions /\ activeSessions[s].copilotClient # "none"
    THEN
      /\ activeSessions' = [activeSessions EXCEPT ![s].aborted = TRUE]
      /\ turns' = [turns EXCEPT ![s] =
                     [k \in DOMAIN @ |->
                        IF turns[s][k].pc = "streaming"
                          THEN [turns[s][k] EXCEPT
                                  !.abortSeen = TRUE,
                                  !.abortedEmpty = IF turns[s][k].abortSeen THEN @
                                                   ELSE activeSessions[s].content = << >>]
                          ELSE turns[s][k]]]
      /\ UNCHANGED <<dbSessions, dbMessages, dbSnapshots, viewedSessionId, sdkPending,
                     sdkCount, uuidCount, emitted, fsWorkspaces, lastMatch, lastMatchCall,
                     lastResult, sdkLog, archivedFrom>>
    ELSE UNCHANGED <<dbSessions, dbMessages, dbSnapshots, activeSessions, viewedSessionId,
                     turns, sdkPending, sdkCount, uuidCount, emitted, fsWorkspaces,
                     lastMatch, lastMatchCall, lastResult, sdkLog, archivedFrom>>

\* ipcMain.handle('session:abort')
AbortSession(s) == AbortSessionInMain(s) /\ UNCHANGED <<renderer, chat, opLog, listeners, adapters, process>>

TitleEvents(s) ==
    {i \in DOMAIN emitted[s] : emitted[s][i].event = "session:title-updated"}

\* AgentManager.regenerateTitle, from the answer of its title client on: null
\* for a session without messages, else the title stored, or null.  `caught`
\* records with the result that the catch block ran (history only).
RegenerateTitle(s, outcome) ==
    LET title == IF dbMessages[s] = << >> THEN << >> ELSE NewTitle(outcome)
        caught == dbMessages[s] # << >> /\ outcome.error
    IN /\ Cardinality(TitleEvents(s)) < MaxTitleUpdates
       /\ lastResult' = [lastResult EXCEPT ![s] =
                           << Returned("regenerateTitle", title) @@ [caught |-> caught] >>]
       /\ IF title # << >>
            THEN /\ dbSessions' = UpdateSessionRows(dbSessions, s, [title |-> title[1]])
                 /\ emitted' = [emitted EXCEPT ![s] = Append(@, TitleUpdated(title[1]))]
            ELSE UNCHANGED <<dbSessions, emitted>>
       /\ UNCHANGED <<dbMessages, dbSnapshots, activeSessions, viewedSessionId, turns,
                      sdkPending, sdkCount, uuidCount, fsWorkspaces, lastMatch,
                      lastMatchCall, sdkLog, archivedFrom, renderer, chat, opLog, listeners, process>>
       /\ adapters' = IF dbMessages[s] # << >> /\ TitleClientReady(outcome)
                       THEN Initialized(adapters, "title", s, 0) ELSE adapters

\* The application quits and starts again: the database and the workspace
\* folder stay, the AgentManager is a new one (no ActiveSession, nothing
\* viewed), and the sendMessage invocations that were running are gone with
\* their SDK sessions (pc "lost").
Restart ==
    /\ activeSessions' = << >>
    /\ viewedSessionId' = NULL
    /\ turns' = [s \in Sessions |->
                   [k \in DOMAIN turns[s] |->
                      IF turns[s][k].pc \in {"init", "streaming", "title"}
                        THEN [turns[s][k] EXCEPT !.pc = "lost"]
                        ELSE turns[s][k]]]
    /\ sdkPending' = [s \in Sessions |-> 0]
    /\ UNCHANGED <<dbSessions, dbMessages, dbSnapshots, sdkCount, uuidCount, emitted,
                   fsWorkspaces, lastMatch, lastMatchCall, lastResult, sdkLog, archivedFrom, renderer, chat, opLog, listeners, process>>
    /\ adapters' = NoAdapters

\* AgentManager.stopSession, as session:delete and stopAll call it: the client
\* is stopped, active.copilotClient = null, and the object leaves the map.
\* The sendMessage invocations still running keep the object in their local
\* `active`.  What the stopped SDK session still delivers is left open.
stopSession(s, a) ==
    /\ s \in DOMAIN activeSessions
    /\ activeSessions' = [o \in DOMAIN activeSessions \ {s} |-> activeSessions[o]]
    /\ turns' = [turns EXCEPT ![s] =
                   [k \in DOMAIN @ |->
                      IF turns[s][k].pc \in {"init", "streaming", "title"}
                           /\ turns[s][k].detached = << >>
                        THEN [turns[s][k] EXCEPT
                                !.detached =
                                  << [activeSessions[s] EXCEPT !.copilotClient = "none"] >>]
                        ELSE turns[s][k]]]
    /\ UNCHANGED <<dbSessions, dbMessages, dbSnapshots, viewedSessionId, sdkPending,
                   sdkCount, uuidCount, emitted, fsWorkspaces, lastMatch, lastMatchCall,
                   lastResult, sdkLog, archivedFrom, renderer, chat, opLog, listeners, process>>
    /\ adapters' = IF activeSessions[s].copilotClient # "none"
                    THEN Stopped(a, s) ELSE a

\* stopSession called for a session of the map (by session:delete)
StopSession(s) ==
    /\ s \in DOMAIN activeSessions
    /\ stopSession(s, adapters)

\* AgentManager.stopAll up to its first await: the keys are copied; with an
\* empty map it returns without an await
StopAllBegin ==
    /\ adapters.stopAll = "idle"
    /\ adapters' = [adapters EXCEPT
                      !.stopAll = IF DOMAIN activeSessions = {} THEN "returned" ELSE "running",
                      !.keys = DOMAIN activeSessions]
    /\ UNCHANGED <<dbSessions, dbMessages, dbSnapshots, activeSessions, viewedSessionId,
                   turns, sdkPending, sdkCount, uuidCount, emitted, fsWorkspaces, lastMatch,
                   lastMatchCall, lastResult, sdkLog, archivedFrom, renderer, chat, opLog,
                   listeners, process>>

\* One round of stopAll's loop: await this.stopSession(sessionId); after the
\* last key stopAll returns
StopAllStep(s) ==
    /\ adapters.stopAll = "running"
    /\ s \in adapters.keys
    /\ LET a == [adapters EXCEPT
                   !.keys = @ \ {s},
                   !.stopAll = IF adapters.keys = {s} THEN "returned" ELSE "running"]
       IN IF s \in DOMAIN activeSessions
            THEN stopSession(s, a)
            ELSE /\ adapters' = a
                 /\ UNCHANGED <<dbSessions, dbMessages, dbSnapshots, activeSessions,
                                viewedSessionId, turns, sdkPending, sdkCount, uuidCount,
                                emitted, fsWorkspaces, lastMatch, lastMatchCall, lastResult,
                                sdkLog, archivedFrom, renderer, chat, opLog, listeners, process>>

\* ipcMain.handle('session:archive'): Database.archiveSession writes status
\* 'archived' (and updated_at) into the row's one status column.
ArchiveSession(s) ==
    /\ s \in DOMAIN dbSessions
    /\ dbSessions[s].updatedAt < MaxRowWrites
    /\ dbSessions' = UpdateSessionRows(dbSessions, s, [status |-> "archived"])
    /\ archivedFrom' = [archivedFrom EXCEPT ![s] =
                          IF dbSessions[s].status # "archived"
                            THEN << dbSessions[s].status >> ELSE @]
    /\ UNCHANGED <<dbMessages, dbSnapshots, activeSessions, viewedSessionId, turns,
                   sdkPending, sdkCount, uuidCount, emitted, fsWorkspaces, lastMatch,
                   lastMatchCall, lastResult, sdkLog, renderer, chat, opLog, listeners, adapters, process>>

\* ipcMain.handle('session:unarchive'): Database.unarchiveSession writes status
\* 'active' (and updated_at).
UnarchiveSession(s) ==
    /\ s \in DOMAIN dbSessions
    /\ dbSessions[s].updatedAt < MaxRowWrites
    /\ dbSessions' = UpdateSessionRows(dbSessions, s, [status |-> "active"])
    /\ UNCHANGED <<dbMessages, dbSnapshots, activeSessions, viewedSessionId, turns,
                   sdkPending, sdkCount, uuidCount, emitted, fsWorkspaces, lastMatch,
                   lastMatchCall, lastResult, sdkLog, archivedFrom, renderer, chat, opLog, listeners, adapters, process>>

----------------------------------------------------------------------------
(* The renderer's store (useStore).  Its event listeners receive what the   *)
(* main process emits, per session in order; when the reply of an invoke    *)
(* reaches the store relative to those events is left open.                 *)

mainVars == <<dbSessions, dbMessages, dbSnapshots, activeSessions, viewedSessionId,
              turns, sdkPending, sdkCount, uuidCount, emitted, fsWorkspaces, lastMatch,
              lastMatchCall, lastResult, sdkLog, archivedFrom, chat, opLog, listeners, adapters, process>>
mainVarsButViewed ==
    <<dbSessions, dbMessages, dbSnapshots, activeSessions, turns, sdkPending, sdkCount,
      uuidCount, emitted, fsWorkspaces, lastMatch, lastMatchCall, lastResult, sdkLog,
      archivedFrom, chat, opLog, listeners, adapters, process>>

\* received: how many of emitted[s] the listeners have handled; createCall:
\* where store.createSession is for that id; abortTarget: the session of the
\* store.abortSession call that awaits its reply; aborted: the sessions
\* store.abortSession was called for (history only); messages: the Message
\* objects of the message list, by sessionId and role; invokes: the
\* ipcRenderer.invoke calls of setActiveSession and loadMessages that have not
\* resolved, in the order they were made; switches: the setActiveSession calls
\* so far
NewStore ==
    [streamingStates |-> << >>, activeSessionId |-> NULL, aborting |-> FALSE,
     abortTarget |-> NULL, received |-> [s \in Sessions |-> 0],
     createCall |-> [s \in Sessions |-> "none"], aborted |-> {},
     messages |-> << >>, invokes |-> << >>, switches |-> 0]

\* A Message object of session s as the message list holds it
StoreMessage(s, role) == [sessionId |-> s, role |-> role]

EmptyStreaming ==
    [thinking |-> << >>, content |-> << >>, toolCalls |-> << >>, fileChanges |-> << >>]

\* Map.delete
MapDelete(map, key) == [x \in (DOMAIN map) \ {key} |-> map[x]]

\* append...ForSession / addToolCallForSession / updateToolCallForSession /
\* addFileChangeForSession on the StreamingState of the session
Accumulate(state, e) ==
    IF e.event = "agent:thinking" THEN [state EXCEPT !.thinking = @ \o e.content]
    ELSE IF e.event = "agent:response" THEN [state EXCEPT !.content = @ \o e.content]
    ELSE IF e.event = "agent:tool-call" THEN [state EXCEPT !.toolCalls = Append(@, e.toolCall)]
    ELSE IF e.event = "agent:tool-result" THEN
        [state EXCEPT !.toolCalls =
           [i \in DOMAIN @ |->
              IF @[i].id = e.toolCallId
                THEN [@[i] EXCEPT !.result = e.result, !.status = "completed"]
                ELSE @[i]]]
    ELSE [state EXCEPT !.fileChanges = Append(@, e.change)]

\* The listeners of setupEventListeners on event e of session s
Listener(store, s, e) ==
    IF e.event \in {"agent:thinking", "agent:tool-call", "agent:tool-result",
                    "agent:response", "agent:file-change"}
      THEN IF store.aborting \/ s \notin DOMAIN store.streamingStates
             THEN store
             ELSE [store EXCEPT !.streamingStates[s] = Accumulate(@, e)]
    ELSE IF e.event = "agent:done"
      THEN IF store.aborting THEN store
           ELSE [store EXCEPT !.streamingStates = MapDelete(@, s)]
    ELSE IF e.event = "agent:error"
      THEN [store EXCEPT !.streamingStates = MapDelete(@, s)]
    ELSE store

\* Mutant of RegisterSession: the streaming state is not registered before
\* the session:create call
RegisterSessionIdOnly(store, s) ==
    [store EXCEPT !.activeSessionId = s,
                  !.messages = << StoreMessage(s, "user") >>,
                  !.createCall[s] = "registered"]

\* store.createSession up to its first await: the id is drawn and the
\* streaming state registered
RegisterSession(store, s) ==
    [store EXCEPT !.streamingStates = (s :> EmptyStreaming) @@ @,
                  !.activeSessionId = s,
                  !.messages = << StoreMessage(s, "user") >>,
                  !.createCall[s] = "registered"]

\* store.createSession up to the session:create invoke: the state is
\* registered, then session:set-viewed is invoked and awaited
RendererBeginCreate(s) ==
    /\ renderer.createCall[s] = "none"
    /\ renderer' = RegisterSession(renderer, s)
    /\ viewedSessionId' = s
    /\ UNCHANGED mainVarsButViewed

\* store.createSession after await session.create(...)
RendererCreateResolved(s) ==
    /\ renderer.createCall[s] = "registered"
    /\ s \in DOMAIN dbSessions
    /\ renderer' = [renderer EXCEPT !.createCall[s] = "resolved"]
    /\ UNCHANGED mainVars

\* The next event the main process emitted for session s reaches its listener
RendererDeliver(s) ==
    /\ renderer.received[s] < Len(emitted[s])
    /\ renderer' = Listener([renderer EXCEPT !.received[s] = @ + 1], s,
                            emitted[s][renderer.received[s] + 1])
    /\ UNCHANGED mainVars

\* store.abortSession up to await session.abort(activeSessionId)
RendererBeginAbort ==
    /\ renderer.abortTarget = NULL
    /\ renderer.activeSessionId # NULL
    /\ renderer.activeSessionId \in DOMAIN renderer.streamingStates
    /\ renderer' = [renderer EXCEPT !.aborting = TRUE,
                                    !.abortTarget = renderer.activeSessionId,
                                    !.aborted = @ \cup {renderer.activeSessionId}]
    /\ UNCHANGED mainVars

\* store.abortSession from the session:abort invoke on: the main process
\* runs abortSession, and with its reply the finally block runs
RendererEndAbort ==
    /\ renderer.abortTarget # NULL
    /\ AbortSessionInMain(renderer.abortTarget)
    /\ renderer' = [renderer EXCEPT
                      !.streamingStates = MapDelete(@, renderer.abortTarget),
                      !.aborting = FALSE,
                      !.abortTarget = NULL]
    /\ UNCHANGED <<chat, opLog, listeners, adapters, process>>

\* The module state of the store before the first setupEventListeners call.
\* registered: the listener sets whose unsubscribers have not run, each named
\* by the number of the call that registered it; cleanupFn: the set the
\* current cleanup function closes over; held: the cleanup functions callers
\* were returned and have not run yet; handledBy: how many listener sets
\* handled the last IPC event (history only)
NoListeners ==
    [listenersSetup |-> FALSE, cleanupFn |-> << >>, registered |-> {}, sets |-> 0,
     held |-> << >>, handledBy |-> << >>]

storeVars ==
    <<dbSessions, dbMessages, dbSnapshots, activeSessions, viewedSessionId, turns,
      sdkPending, sdkCount, uuidCount, emitted, fsWorkspaces, lastMatch, lastMatchCall,
      lastResult, sdkLog, archivedFrom, renderer, chat, opLog, adapters, process>>

\* useStore.setupEventListeners: the module state after the call; the caller
\* holds the function it was returned
setupEventListeners(l) ==
    IF l.listenersSetup /\ l.cleanupFn # << >>
      THEN [l EXCEPT !.held = Append(@, l.cleanupFn[1])]
      ELSE [l EXCEPT !.listenersSetup = TRUE,
                     !.cleanupFn = << l.sets + 1 >>,
                     !.registered = @ \cup {l.sets + 1},
                     !.sets = @ + 1,
                     !.held = Append(@, l.sets + 1)]

\* The cleanup function that closes over the unsubscribers of set g
cleanupFn(l, g) ==
    [l EXCEPT !.registered = @ \ {g}, !.listenersSetup = FALSE, !.cleanupFn = << >>]

\* A component's effect calls setupEventListeners and keeps what it returns
SetupEventListeners ==
    /\ Len(listeners.held) < MaxHeld
    /\ listeners.sets < MaxListenerSets
    /\ listeners' = setupEventListeners(listeners)
    /\ UNCHANGED storeVars

\* A caller runs the cleanup function it holds (an effect's cleanup runs once)
RunCleanup(i) ==
    /\ i \in DOMAIN listeners.held
    /\ listeners' = [cleanupFn(listeners, listeners.held[i]) EXCEPT
                       !.held = SubSeq(@, 1, i - 1) \o SubSeq(@, i + 1, Len(@))]
    /\ UNCHANGED storeVars

\* The main process sends an IPC event: every registered listener set handles it
IpcEvent ==
    /\ listeners' = [listeners EXCEPT !.handledBy = << Cardinality(listeners.registered) >>]
    /\ UNCHANGED storeVars

\* An ipcRenderer.invoke in flight: its channel and argument, the store
\* function that awaits it, and the reply once the main process has handled it
Invoke(channel, sessionId, from) ==
    [channel |-> channel, sessionId |-> sessionId, from |-> from, reply |-> << >>]

\* store.loadMessages after its await: set({ messages })
loadMessages(store, sessionId, messages) == [store EXCEPT !.messages = messages]

\* store.setActiveSession up to its first await
RendererSetActiveSession(id) ==
    /\ id = NULL \/ id \in DOMAIN dbSessions
    /\ renderer.switches < MaxSwitches
    /\ Len(renderer.invokes) < MaxInvokes
    /\ renderer' = [renderer EXCEPT
                      !.activeSessionId = id,
                      !.messages = << >>,
                      !.invokes = Append(@, Invoke("session:set-viewed", id, "setActiveSession")),
                      !.switches = @ + 1]
    /\ UNCHANGED mainVars

\* The agentDone listener as a whole: the streaming state is dropped and,
\* for the active session, loadMessages is called
RendererDeliverDone(s) ==
    /\ renderer.received[s] < Len(emitted[s])
    /\ LET e == emitted[s][renderer.received[s] + 1]
           store == Listener([renderer EXCEPT !.received[s] = @ + 1], s, e)
       IN IF e.event = "agent:done" /\ ~renderer.aborting /\ renderer.activeSessionId = s
            THEN /\ Len(renderer.invokes) < MaxInvokes
                 /\ renderer' = [store EXCEPT !.invokes =
                                    Append(@, Invoke("session:get", s, "agentDone"))]
            ELSE renderer' = store
    /\ UNCHANGED mainVars

\* The main process handles the oldest invoke it has not handled yet
\* (ipcMain.handle of session:set-viewed, session:get, session:mark-read)
MainHandleInvoke ==
    \E i \in DOMAIN renderer.invokes :
      LET call == renderer.invokes[i]
          s == call.sessionId
      IN /\ call.reply = << >>
         /\ \A j \in 1..(i - 1) : renderer.invokes[j].reply # << >>
         /\ viewedSessionId' = IF call.channel = "session:set-viewed" THEN s
                               ELSE viewedSessionId
         /\ dbSessions' = IF call.channel = "session:mark-read" /\ s \in DOMAIN dbSessions
                            THEN [dbSessions EXCEPT ![s].hasUnread = FALSE]
                            ELSE dbSessions
         /\ renderer' = [renderer EXCEPT !.invokes[i].reply =
                           IF call.channel = "session:get"
                             THEN << [k \in DOMAIN dbMessages[s] |->
                                       StoreMessage(s, dbMessages[s][k].role)] >>
                             ELSE << << >> >>]
         /\ UNCHANGED <<dbMessages, dbSnapshots, activeSessions, turns, sdkPending, sdkCount,
                        uuidCount, emitted, fsWorkspaces, lastMatch, lastMatchCall, lastResult,
                        sdkLog, archivedFrom, chat, opLog, listeners, adapters, process>>

\* The reply of the oldest invoke reaches the store, and the function that
\* awaited it runs to its next await: setActiveSession goes from setViewed to
\* loadMessages and from there to markRead; loadMessages sets the list
RendererResolveInvoke ==
    /\ renderer.invokes # << >>
    /\ LET call == Head(renderer.invokes)
           s == call.sessionId
           rest == Tail(renderer.invokes)
       IN /\ call.reply # << >>
          /\ renderer' =
               IF call.channel = "session:set-viewed"
                 THEN [renderer EXCEPT !.invokes =
                         IF s # NULL
                           THEN Append(rest, Invoke("session:get", s, "setActiveSession"))
                           ELSE rest]
               ELSE IF call.channel = "session:get"
                 THEN [loadMessages(renderer, s, call.reply[1]) EXCEPT !.invokes =
                         IF call.from = "setActiveSession"
                           THEN Append(rest, Invoke("session:mark-read", s, "setActiveSession"))
                           ELSE rest]
               ELSE [renderer EXCEPT !.invokes = rest]
    /\ UNCHANGED mainVars

\* AgentManager.setViewedSession
SetViewedSession(sessionId) ==
    /\ viewedSessionId' = sessionId
    /\ UNCHANGED <<dbSessions, dbMessages, dbSnapshots, activeSessions, turns, sdkPending,
                   sdkCount, uuidCount, emitted, fsWorkspaces, lastMatch, lastMatchCall, lastResult, sdkLog, archivedFrom, renderer, chat, opLog, listeners, adapters, process>>

\* ipcMain.handle('workspace:match'): the caller gets matchWorkspace's result
MatchWorkspaceCall(prompt, llm) ==
    /\ lastMatch' = << matchWorkspace(prompt, fsWorkspaces, llm) >>
    /\ lastMatchCall' = << [prompt |-> prompt, llm |-> llm] >>
    /\ UNCHANGED <<dbSessions, dbMessages, dbSnapshots, activeSessions, viewedSessionId,
                   turns, sdkPending, sdkCount, uuidCount, emitted, fsWorkspaces,
                   lastResult, sdkLog, archivedFrom, renderer, chat, opLog, listeners, process>>
    /\ adapters' = IF MatchClientReady(fsWorkspaces, llm)
                    THEN Initialized(adapters, "match", NULL, 0) ELSE adapters

----------------------------------------------------------------------------
(* Spec: the turn lifecycle of two sessions.  The routing inputs are fixed  *)
(* (no workspace folder content, a plain prompt) and no session is viewed.  *)

HiPrompt == <<"h", "i">>
LlmInitError == [kind |-> "initError"]
RandomName == <<"b", "o", "l", "d", "-", "a", "r", "c", "-", "7">>

Init ==
    /\ dbSessions = << >>
    /\ dbMessages = [s \in Sessions |-> << >>]
    /\ dbSnapshots = [s \in Sessions |-> << >>]
    /\ activeSessions = << >>
    /\ viewedSessionId = NULL
    /\ turns = [s \in Sessions |-> << >>]
    /\ sdkPending = [s \in Sessions |-> 0]
    /\ sdkCount = 0
    /\ uuidCount = [s \in Sessions |-> 0]
    /\ emitted = [s \in Sessions |-> << >>]
    /\ fsWorkspaces = << >>
    /\ lastMatch = << >>
    /\ lastMatchCall = << >>
    /\ lastResult = [s \in Sessions |-> << >>]
    /\ sdkLog = [s \in Sessions |-> << >>]
    /\ archivedFrom = [s \in Sessions |-> << >>]
    /\ renderer = NewStore
    /\ chat = NewChat
    /\ opLog = [s \in Sessions |-> << >>]
    /\ listeners = NoListeners
    /\ adapters = NoAdapters
    /\ process = NewProcess

Next ==
    \/ \E s \in Sessions : CreateSession(s, NoName, HiPrompt, LlmInitError, RandomName)
    \/ \E s \in Sessions : SendMessage(s, HiPrompt)
    \/ \E s \in Sessions, k \in 1..MaxTurns : InitOk(s, k)
    \/ \E s \in Sessions, k \in 1..MaxTurns : InitFail(s, k)
    \/ \E s \in Sessions, e \in SdkEvents : SdkEmit(s, e, MaxEvents)
    \/ \E s \in Sessions : SdkIdle(s)
    \/ \E s \in Sessions, k \in 1..MaxTurns : Consume(s, k)
    \/ \E s \in Sessions, k \in 1..MaxTurns : Finalize(s, k)
    \/ \E s \in Sessions, k \in 1..MaxTurns, o \in TitleOutcomes : TitleEnd(s, k, o)
    \/ \E s \in Sessions : AbortSession(s)

Spec == Init /\ [][Next]_vars


----------------------------------------------------------------------------
(* SpecRoute: createSession over a workspace folder, prompts, hints and     *)
(* answers of the classification step                                       *)

TodoApp == <<"t", "o", "d", "o", "-", "a", "p", "p">>
Billing == <<"b", "i", "l", "l", "i", "n", "g">>
Unknown == <<"n", "o", "p", "e">>

WorkspaceLists == { << >>, << Billing, TodoApp >> }

RoutePrompts ==
    { <<"f", "i", "x", " ", "t", "o", "d", "o", " ", "a", "p", "p">>,
      <<"@", "b", "i", "l", "l", "i", "n", "g", " ", "f", "i", "x">>,
      <<"n", "e", "w", " ", "a", "p", "p">>,
      <<"@", "b", "i", "l", "l", "i", "n", "g">>,
      <<"@", "b", "i", "l", "l", "i", "n", "g", " ", "a", "\n", "b">>,
      HiPrompt }

Hints == { NoName, Billing }

LlmAnswers ==
    { LlmInitError,
      [kind |-> "chatError"],
      [kind |-> "noJson"],
      [kind |-> "badJson"],
      [kind |-> "json", parsed |-> [workspace |-> TodoApp]],
      [kind |-> "json", parsed |-> [confidence |-> 9]],
      [kind |-> "json", parsed |-> [workspace |-> Unknown, confidence |-> 10]] }
    \cup
    { [kind |-> "json", parsed |-> [workspace |-> TodoApp, confidence |-> c]] :
        c \in {0, 3, 7, 8} }

InitRoute ==
    /\ dbSessions = << >>
    /\ dbMessages = [s \in Sessions |-> << >>]
    /\ dbSnapshots = [s \in Sessions |-> << >>]
    /\ activeSessions = << >>
    /\ viewedSessionId = NULL
    /\ turns = [s \in Sessions |-> << >>]
    /\ sdkPending = [s \in Sessions |-> 0]
    /\ sdkCount = 0
    /\ uuidCount = [s \in Sessions |-> 0]
    /\ emitted = [s \in Sessions |-> << >>]
    /\ fsWorkspaces \in WorkspaceLists
    /\ lastMatch = << >>
    /\ lastMatchCall = << >>
    /\ lastResult = [s \in Sessions |-> << >>]
    /\ sdkLog = [s \in Sessions |-> << >>]
    /\ archivedFrom = [s \in Sessions |-> << >>]
    /\ renderer = NewStore
    /\ chat = NewChat
    /\ opLog = [s \in Sessions |-> << >>]
    /\ listeners = NoListeners
    /\ adapters = NoAdapters
    /\ process = NewProcess

NextRoute ==
    \E s \in Sessions, h \in Hints, p \in RoutePrompts, l \in LlmAnswers :
      CreateSession(s, h, p, l, RandomName)

SpecRoute == InitRoute /\ [][NextRoute]_vars

----------------------------------------------------------------------------
(* SpecNew: createSession with prompts that ask for a new project, over the *)
(* names generateRandomName can draw                                        *)

NewApp == <<"n", "e", "w", " ", "a", "p", "p">>
NewPrompts ==
    { NewApp,
      <<"@", "b", "i", "l", "l", "i", "n", "g", " ">> \o NewApp,
      <<"@", "b", "i", "l", "l", "i", "n", "g", " ">> \o NewApp \o <<"\n", "x">>,
      HiPrompt }

RandomNames == { generateRandomName(a, n, k) : a \in {1, 20}, n \in {20}, k \in {0, 999} }

NextNew ==
    \E s \in Sessions, h \in Hints, p \in NewPrompts, n \in RandomNames :
      CreateSession(s, h, p, LlmInitError, n)

SpecNew == InitRoute /\ [][NextNew]_vars

----------------------------------------------------------------------------
(* SpecMatch: workspace:match calls over the same folders, prompts and      *)
(* answers                                                                  *)

NextMatch == \E p \in RoutePrompts, l \in LlmAnswers : MatchWorkspaceCall(p, l)

SpecMatch == InitRoute /\ [][NextMatch]_vars

----------------------------------------------------------------------------
(* SpecTools: one session, one turn, whose agent runs two tool calls        *)

ToolEvents ==
    { [type |-> "tool.execution_start", toolCallId |-> c, toolName |-> EditFile,
       arguments |-> [path |-> "f1", newString |-> "n"]] : c \in {"c1", "c2"} }
    \cup
    { [type |-> "tool.execution_complete", toolCallId |-> c, result |-> "ok"] :
        c \in {"c1", "c2"} }

NextTools ==
    \/ CreateSession("s1", NoName, HiPrompt, LlmInitError, RandomName)
    \/ InitOk("s1", 1)
    \/ \E e \in ToolEvents : SdkEmit("s1", e, MaxToolEvents)
    \/ SdkIdle("s1")
    \/ Consume("s1", 1)
    \/ Finalize("s1", 1)
    \/ \E o \in TitleOutcomes : TitleEnd("s1", 1, o)

SpecTools == Init /\ [][NextTools]_vars

----------------------------------------------------------------------------
(* SpecLife: turns without stream events, over restarts of the application, *)
(* with the renderer's setViewed and regenerateTitle calls                  *)

NextLife ==
    \/ \E s \in Sessions : CreateSession(s, NoName, HiPrompt, LlmInitError, RandomName)
    \/ \E s \in Sessions : SendMessage(s, HiPrompt)
    \/ \E s \in Sessions, k \in 1..MaxTurns : InitOk(s, k)
    \/ \E s \in Sessions, k \in 1..MaxTurns : InitFail(s, k)
    \/ \E s \in Sessions : SdkIdle(s)
    \/ \E s \in Sessions, k \in 1..MaxTurns : Finalize(s, k)
    \/ \E s \in Sessions, k \in 1..MaxTurns, o \in TitleOutcomes : TitleEnd(s, k, o)
    \/ \E s \in Sessions, o \in TitleOutcomes : RegenerateTitle(s, o)
    \/ \E v \in Sessions \cup {NULL} : SetViewedSession(v)
    \/ Restart

SpecLife == Init /\ [][NextLife]_vars

----------------------------------------------------------------------------
(* SpecTitle: first turns and regenerateTitle calls, over summarizer texts  *)
(* around the title cap                                                     *)

\* A text of n characters c
Repeat(c, n) == [i \in 1..n |-> c]

\* What the title client answers: nothing, white space only, and texts
\* shorter than, as long as and longer than the cap, with white space around
\* them or at the cut
SummarizerTexts ==
    { << >>,
      <<" ", "\n">>,
      <<" ", "T", "\n">>,
      Repeat("x", TitleCap),
      Repeat("x", TitleCap + 1),
      <<" ">> \o Repeat("x", TitleCap - 1) \o <<" ", "y", "z", "\n">> }

TitleAnswers == { [error |-> FALSE, text |-> text] : text \in SummarizerTexts }

NextTitle ==
    \/ \E s \in Sessions : CreateSession(s, NoName, HiPrompt, LlmInitError, RandomName)
    \/ \E s \in Sessions, k \in 1..MaxTurns : InitOk(s, k)
    \/ \E s \in Sessions : SdkIdle(s)
    \/ \E s \in Sessions, k \in 1..MaxTurns : Finalize(s, k)
    \/ \E s \in Sessions, k \in 1..MaxTurns, o \in TitleAnswers : TitleEnd(s, k, o)
    \/ \E s \in Sessions, o \in TitleAnswers : RegenerateTitle(s, o)

SpecTitle == Init /\ [][NextTitle]_vars

----------------------------------------------------------------------------
(* SpecInit: turns from createSession to agent:done, with the fairness the  *)
(* event loop gives: a generator that has seen session.idle is resumed.     *)
(* Whether and when the SDK settles createSession, sends session.idle or    *)
(* answers the title client is up to the SDK: no fairness.                  *)
(* SpecInitTimer is the same program with the later copy of init, whose     *)
(* timer fires if nothing else ends the wait.                               *)

NextInit ==
    \/ \E s \in Sessions : CreateSession(s, NoName, HiPrompt, LlmInitError, RandomName)
    \/ \E s \in Sessions : SendMessage(s, HiPrompt)
    \/ \E s \in Sessions, k \in 1..MaxTurns : InitOk(s, k)
    \/ \E s \in Sessions, k \in 1..MaxTurns : InitFail(s, k)
    \/ \E s \in Sessions : SdkIdle(s)
    \/ \E s \in Sessions, k \in 1..MaxTurns : Finalize(s, k)
    \/ \E s \in Sessions, k \in 1..MaxTurns, o \in TitleOutcomes : TitleEnd(s, k, o)

EventLoopFairness == \A s \in Sessions, k \in 1..MaxTurns : WF_vars(Finalize(s, k))

SpecInit == Init /\ [][NextInit]_vars /\ EventLoopFairness

NextInitTimer ==
    \/ NextInit
    \/ \E s \in Sessions, k \in 1..MaxTurns : InitTimeout(s, k)

TimerFairness == \A s \in Sessions, k \in 1..MaxTurns : WF_vars(InitTimeout(s, k))

SpecInitTimer == Init /\ [][NextInitTimer]_vars /\ EventLoopFairness /\ TimerFairness

----------------------------------------------------------------------------
(* SpecArchive: turns that complete or fail, with session:archive and       *)
(* session:unarchive calls at any moment                                    *)

NextArchive ==
    \/ \E s \in Sessions : CreateSession(s, NoName, HiPrompt, LlmInitError, RandomName)
    \/ \E s \in Sessions, k \in 1..MaxTurns : InitOk(s, k)
    \/ \E s \in Sessions, k \in 1..MaxTurns : InitFail(s, k)
    \/ \E s \in Sessions : SdkIdle(s)
    \/ \E s \in Sessions, k \in 1..MaxTurns : Finalize(s, k)
    \/ \E s \in Sessions, k \in 1..MaxTurns, o \in TitleOutcomes : TitleEnd(s, k, o)
    \/ \E s \in Sessions : ArchiveSession(s)
    \/ \E s \in Sessions : UnarchiveSession(s)

SpecArchive == Init /\ [][NextArchive]_vars

----------------------------------------------------------------------------
(* SpecRenderer: the renderer creates sessions and aborts the active one,   *)
(* the main process runs their first turns, and the events reach the store  *)

TitleClientFails == [error |-> TRUE, text |-> << >>]

\* The main process runs a step of session s only while fewer than MaxBacklog
\* of the events it emitted for s wait for their listener
ChannelFree(s) == Len(emitted[s]) - renderer.received[s] < MaxBacklog

NextRenderer ==
    \/ \E s \in Sessions : RendererBeginCreate(s)
    \/ \E s \in Sessions :
         /\ renderer.createCall[s] = "registered"
         /\ CreateSession(s, NoName, HiPrompt, LlmInitError, RandomName)
    \/ \E s \in Sessions : RendererCreateResolved(s)
    \/ \E s \in Sessions, k \in 1..MaxTurns : ChannelFree(s) /\ InitOk(s, k)
    \/ \E s \in Sessions, e \in SdkEvents :
         ChannelFree(s) /\ SdkEmit(s, e, MaxRendererEvents)
    \/ \E s \in Sessions : ChannelFree(s) /\ SdkIdle(s)
    \/ \E s \in Sessions, k \in 1..MaxTurns : ChannelFree(s) /\ Consume(s, k)
    \/ \E s \in Sessions, k \in 1..MaxTurns : ChannelFree(s) /\ Finalize(s, k)
    \/ \E s \in Sessions, k \in 1..MaxTurns :
         ChannelFree(s) /\ TitleEnd(s, k, TitleClientFails)
    \/ \E s \in Sessions : RendererDeliver(s)
    \/ RendererBeginAbort
    \/ RendererEndAbort

SpecRenderer == Init /\ [][NextRenderer]_vars

----------------------------------------------------------------------------
(* Properties *)

TurnIds == {<<s, k>> \in Sessions \X (1..(MaxTurns + 1)) : k \in DOMAIN turns[s]}
Turn(t) == turns[t[1]][t[2]]

\* The rows of the messages table with this id
RowsOf(s, id) == {i \in DOMAIN dbMessages[s] : dbMessages[s][i].id = id}
\* The row of a turn's assistant message
RowOf(t) == dbMessages[t[1]][CHOOSE i \in RowsOf(t[1], Turn(t).assistantMessageId) : TRUE]
\* The snapshot rows of a message
SnapshotsOf(s, id) == {i \in DOMAIN dbSnapshots[s] : dbSnapshots[s][i].message_id = id}
\* The events of one kind emitted for a message
DoneEvents(s, id) ==
    {i \in DOMAIN emitted[s] :
       emitted[s][i].event = "agent:done" /\ emitted[s][i].messageId = id}
ErrorEvents(s) == {i \in DOMAIN emitted[s] : emitted[s][i].event = "agent:error"}
StreamEventNames ==
    {"agent:thinking", "agent:tool-call", "agent:tool-result", "agent:response",
     "agent:file-change"}
StreamEvents(log) == {i \in DOMAIN log : log[i].event \in StreamEventNames}

\* The accumulator buffers of a session
Buffers(actives, s) ==
    IF s \in DOMAIN actives
      THEN << actives[s].thinking, actives[s].content, actives[s].toolCalls,
              actives[s].fileChanges >>
      ELSE << >>

\* Two lists of objects are equal up to fields that are undefined
SameObjects(a, b) ==
    /\ Len(a) = Len(b)
    /\ \A i \in DOMAIN a :
         \A key \in DOMAIN a[i] \cup DOMAIN b[i] :
           IF key \in DOMAIN a[i] /\ key \in DOMAIN b[i] THEN a[i][key] = b[i][key]
           ELSE key \in OptionalKeys /\ Get(a[i], key) = NULL /\ Get(b[i], key) = NULL

Finalized(t) == Turn(t).pc \in {"title", "done"}

\* C1: every completed turn has exactly one assistant message row, which has
\* received exactly one updateMessage (an unfinished or failed turn's row none),
\* and at the step that finalizes a turn the toolCalls and fileChanges written
\* to the row are those of the session's accumulator at that moment.
C1_StateOk ==
    \A t \in TurnIds :
      /\ Cardinality(RowsOf(t[1], Turn(t).assistantMessageId)) = 1
      /\ RowOf(t).role = "assistant"
      /\ RowOf(t).updates = (IF Finalized(t) THEN 1 ELSE 0)
C1_StepOk ==
    \A t \in TurnIds :
      (Turn(t).pc = "streaming" /\ turns'[t[1]][t[2]].pc \in {"title", "done"}) =>
        LET row == dbMessages'[t[1]][CHOOSE i \in RowsOf(t[1], Turn(t).assistantMessageId) : TRUE]
            a == activeSessions[t[1]]
        IN /\ SameObjects(RowToolCalls(row), a.toolCalls)
           /\ SameObjects(RowFileChanges(row), a.fileChanges)
           /\ row.content = a.content
C1_ExactlyOneFinalUpdate == [](C1_StateOk) /\ [][C1_StepOk]_vars

\* C1 witness: a turn completed with a tool call and a file change in its message
C1_Witness ==
    \E t \in TurnIds :
      /\ Turn(t).pc = "done"
      /\ Len(RowToolCalls(RowOf(t))) > 0
      /\ Len(RowFileChanges(RowOf(t))) > 0
      /\ RowOf(t).updates = 1

\* C2: a turn during whose streaming abortSession set `aborted` is never
\* finalized: its message gets no updateMessage, no snapshot is saved for it,
\* and no agent:done is emitted for it.
C2_NoFinalizationAfterAbort ==
    \A t \in TurnIds :
      Turn(t).abortSeen =>
        /\ RowOf(t).updates = 0
        /\ SnapshotsOf(t[1], Turn(t).assistantMessageId) = {}
        /\ DoneEvents(t[1], Turn(t).assistantMessageId) = {}

\* C3: while `aborted` is set on a session, no step changes its accumulator
\* buffers or emits a further stream event for it.
C3_StepIgnored ==
    \A s \in DOMAIN activeSessions :
      (activeSessions[s].aborted /\ s \in DOMAIN activeSessions'
         /\ activeSessions'[s].aborted) =>
        /\ Buffers(activeSessions', s) = Buffers(activeSessions, s)
        /\ StreamEvents(emitted'[s]) = StreamEvents(emitted[s])
C3_EventsAfterAbortIgnored == [][C3_StepIgnored]_vars

\* C6: a step that applies an event of one session's adapter leaves the
\* accumulator buffers of every other session unchanged.
C6_StepIsolated ==
    \A s \in Sessions, k \in 1..(MaxTurns + 1) :
      Consume(s, k) =>
        \A other \in Sessions \ {s} :
          Buffers(activeSessions', other) = Buffers(activeSessions, other)
C6_Isolation == [][C6_StepIsolated]_vars

\* C6 witness: both sessions hold accumulated content of their own turns
C6_Witness ==
    /\ DOMAIN activeSessions = Sessions
    /\ \A s \in Sessions :
         /\ turns[s] # << >> /\ turns[s][1].pc = "streaming"
         /\ Buffers(activeSessions, s) # << << >>, << >>, << >>, << >> >>
    /\ Buffers(activeSessions, "s1") # Buffers(activeSessions, "s2")

\* C7: while a turn of a session is streaming, the
\* session's currentMessageId is that turn's message: no other sendMessage on
\* the session has reset the accumulator under it.
C7_TurnOwnsAccumulator ==
    \A t \in TurnIds :
      Turn(t).pc = "streaming" =>
        activeSessions[t[1]].currentMessageId = Turn(t).assistantMessageId

\* C8: the message of a turn that was aborted before any text was accumulated
\* keeps empty content.
C8_AbortedEmptyStaysEmpty ==
    \A t \in TurnIds : Turn(t).abortedEmpty => RowOf(t).content = << >>

\* C9: after a turn is finalized, each path among the file changes of its
\* message has exactly one snapshot row keyed (session, message, path).
C9_OneSnapshotPerKey ==
    \A t \in TurnIds :
      Finalized(t) =>
        \A c \in DOMAIN RowFileChanges(RowOf(t)) :
          Cardinality({i \in SnapshotsOf(t[1], Turn(t).assistantMessageId) :
                         dbSnapshots[t[1]][i].file_path = RowFileChanges(RowOf(t))[c].path}) = 1

\* C10: a turn that failed (init rejected, or chat() threw) leaves its
\* assistant message the empty placeholder with no snapshot and no agent:done,
\* and the step at which it fails sets the session's status to error and emits
\* agent:error for the session as its last event.
C10_StateOk ==
    \A t \in TurnIds :
      Turn(t).pc = "failed" =>
        /\ RowOf(t).content = << >> /\ RowOf(t).thinking = << >>
        /\ RowOf(t).tool_calls = << >> /\ RowOf(t).file_changes = << >>
        /\ RowOf(t).updates = 0
        /\ SnapshotsOf(t[1], Turn(t).assistantMessageId) = {}
        /\ DoneEvents(t[1], Turn(t).assistantMessageId) = {}
        /\ ErrorEvents(t[1]) # {}
C10_StepOk ==
    \A s \in Sessions, k \in 1..(MaxTurns + 1) :
      (k \in DOMAIN turns'[s] /\ turns'[s][k].pc = "failed"
         /\ (k \notin DOMAIN turns[s] \/ turns[s][k].pc # "failed")) =>
        /\ dbSessions'[s].status = "error"
        /\ emitted'[s] # << >>
        /\ emitted'[s][Len(emitted'[s])].event = "agent:error"
        /\ Cardinality(ErrorEvents(s)) + 1 =
             Cardinality({i \in DOMAIN emitted'[s] : emitted'[s][i].event = "agent:error"})
C4_MatchAboveThreshold ==
    lastMatch # << >> =>
      (lastMatch[1].workspace = << >> \/ lastMatch[1].confidence > 7)

\* C5: a createSession with no hint, no @mention and no new-project intent
\* persists the session with the workspace matchWorkspace returned when that
\* came with confidence > 0.7, and with workspace and workspacePath null otherwise.
C5_StepOk ==
    \A s \in Sessions, p \in RoutePrompts, l \in LlmAnswers :
      (/\ s \notin DOMAIN dbSessions
       /\ s \in DOMAIN dbSessions'
       /\ dbMessages'[s][1].content = p
       /\ mentionMatch(p) = << >>
       /\ ~detectNewProjectIntent(p)
       /\ CreateSession(s, NoName, p, l, RandomName)) =>
        LET m == matchWorkspace(p, fsWorkspaces, l)
        IN IF m.workspace # << >> /\ m.confidence > 7
             THEN /\ dbSessions'[s].workspace = m.workspace[1].displayName
                  /\ dbSessions'[s].workspacePath = m.workspace[1].path
             ELSE /\ dbSessions'[s].workspace = NoName
                  /\ dbSessions'[s].workspacePath = NoPath
C5_BindsOnlyAboveThreshold == [][C5_StepOk]_vars

\* C5 witness: over a folder holding todo-app, the same plain prompt was routed
\* twice: one session is bound to todo-app, the other to no workspace
C5_Witness ==
    /\ fsWorkspaces # << >>
    /\ DOMAIN dbSessions = Sessions
    /\ \A s \in Sessions : dbMessages[s][1].content = <<"f", "i", "x", " ", "t", "o", "d", "o", " ", "a", "p", "p">>
    /\ dbSessions["s1"].workspace = TodoApp
    /\ dbSessions["s1"].workspacePath = PathOf(TodoApp)
    /\ dbSessions["s2"].workspace = NoName
    /\ dbSessions["s2"].workspacePath = NoPath

\* The fields of a Session that createSession sets and the sessions table keeps
SessionFields == {"id", "title", "workspace", "workspacePath", "hasUnread", "status"}

\* C11: createSession returns the Session it persisted, with the caller's id,
\* while the first turn is still running; a first turn that fails is reported
\* by agent:error for that session, and no createSession call is rejected.
C11_StepOk ==
    \A s \in Sessions :
      /\ (s \notin DOMAIN dbSessions /\ s \in DOMAIN dbSessions') =>
           /\ lastResult'[s] # << >>
           /\ lastResult'[s][1].call = "createSession"
           /\ lastResult'[s][1].ok
           /\ lastResult'[s][1].value.id = s
           /\ \A f \in SessionFields : lastResult'[s][1].value[f] = dbSessions'[s][f]
           /\ Len(turns'[s]) = 1
           /\ turns'[s][1].pc \notin {"done", "failed"}
      /\ (lastResult'[s] # << >> /\ lastResult'[s][1].call = "createSession") =>
           lastResult'[s][1].ok
C11_StateOk ==
    \A s \in Sessions :
      (Len(turns[s]) >= 1 /\ turns[s][1].pc = "failed") =>
        /\ ErrorEvents(s) # {}
        /\ DoneEvents(s, turns[s][1].assistantMessageId) = {}
C12_StepOk ==
    \A s \in Sessions :
      (s \notin DOMAIN activeSessions /\ SendMessage(s, HiPrompt)) =>
        IF s \in DOMAIN dbSessions
          THEN /\ s \in DOMAIN activeSessions'
               /\ Len(dbMessages'[s]) = Len(dbMessages[s]) + 2
               /\ Len(turns'[s]) = Len(turns[s]) + 1
               /\ lastResult'[s] = << >>
          ELSE /\ lastResult'[s] = << Rejected("sendMessage", "Session not found") >>
               /\ UNCHANGED <<dbSessions, dbMessages, dbSnapshots, activeSessions, turns,
                              uuidCount, emitted, viewedSessionId, sdkPending>>
C12_RehydrateOrNotFound == [][C12_StepOk]_vars

\* C12 witness: after a restart one session was rehydrated by sendMessage and
\* runs a new turn, and a sendMessage on a session that does not exist was rejected
C12_Witness ==
    \E s, o \in Sessions :
      /\ s \in DOMAIN dbSessions /\ s \in DOMAIN activeSessions
      /\ Len(turns[s]) = 2 /\ turns[s][1].pc = "lost" /\ turns[s][2].pc = "init"
      /\ Len(dbMessages[s]) = 4
      /\ o \notin DOMAIN dbSessions /\ o \notin DOMAIN activeSessions
      /\ lastResult[o] = << Rejected("sendMessage", "Session not found") >>
      /\ dbMessages[o] = << >> /\ emitted[o] = << >>

\* The StreamEvent type an emitted stream event stands for (agent:file-change
\* is derived from a tool result and stands for none)
EventType(e) ==
    IF e.event = "agent:thinking" THEN "thinking"
    ELSE IF e.event = "agent:response" THEN "text"
    ELSE IF e.event = "agent:tool-call" THEN "tool_call"
    ELSE "tool_result"
IsAppliedEvent(e) ==
    e.event \in {"agent:thinking", "agent:response", "agent:tool-call", "agent:tool-result"}
AppliedTypes(s) ==
    LET applied == SelectSeq(emitted[s], IsAppliedEvent)
    IN [i \in DOMAIN applied |-> EventType(applied[i])]
DeliveredTypes(s) == [i \in DOMAIN sdkLog[s] |-> sdkLog[s][i].type]
IsPrefix(a, b) == Len(a) <= Len(b) /\ SubSeq(b, 1, Len(a)) = a

\* C13: the events a session's adapter delivered are applied and re-emitted in
\* the order of delivery, each exactly once: what has been re-emitted is a
\* prefix of what was delivered, and all of it once no turn is streaming.
C13_FifoExactlyOnce ==
    \A s \in Sessions :
      /\ IsPrefix(AppliedTypes(s), DeliveredTypes(s))
      /\ (\A k \in DOMAIN turns[s] : turns[s][k].pc # "streaming") =>
           AppliedTypes(s) = DeliveredTypes(s)

\* A prompt that starts with an @name token, the name, and the prompt that
\* remains when the mention and the white space after it are taken away
StartsWithMention(p) == Len(p) >= 2 /\ p[1] = "@" /\ p[2] \notin WhiteSpace
MentionName(p) == SubSeq(p, 2, 1 + spanNotIn(Tail(p), WhiteSpace))
MentionRest(p) == trimStart(SubSeq(p, 2 + Len(MentionName(p)), Len(p)))

\* C14: a createSession whose prompt starts with @name binds the session to
\* that name, creates no workspace, whatever the hint and the classification
\* step say, and persists the rest of the prompt as the user message.
C14_StepOk ==
    \A s \in Sessions, h \in Hints, p \in RoutePrompts, l \in LlmAnswers :
      (/\ s \notin DOMAIN dbSessions
       /\ s \in DOMAIN dbSessions'
       /\ StartsWithMention(p)
       /\ CreateSession(s, h, p, l, RandomName)) =>
        /\ dbSessions'[s].workspace = MentionName(p)
        /\ dbMessages'[s][1].content = MentionRest(p)
        /\ fsWorkspaces' = fsWorkspaces
C14_MentionBinds == [][C14_StepOk]_vars

\* The classification step failed (init, stream or JSON.parse)
LlmFailed(l) == l.kind \in {"initError", "chatError", "badJson"}
\* The names of the folder that qualify in the keyword tier for the prompt
Qualifying(prompt) ==
    {i \in DOMAIN fsWorkspaces : KeywordQualifies(fsWorkspaces[i], prompt)}
\* The result is that of the keyword tier: the first qualifying workspace
\* with confidence 0.8, or no workspace with confidence 0
IsKeywordResult(result, prompt) ==
    IF Qualifying(prompt) # {}
      THEN /\ result.workspace # << >>
           /\ \E i \in Qualifying(prompt) :
                /\ \A j \in Qualifying(prompt) : i <= j
                /\ result.workspace[1].name = fsWorkspaces[i]
           /\ result.confidence = 8
      ELSE result.workspace = << >> /\ result.confidence = 0

\* C16: when the classification step fails, workspace:match still returns a
\* result, and it is the result of the keyword tier.
C16_ErrorFallsThrough ==
    (lastMatchCall # << >> /\ LlmFailed(lastMatchCall[1].llm)) =>
      /\ lastMatch # << >>
      /\ IsKeywordResult(lastMatch[1], lastMatchCall[1].prompt)

\* C16 witness: the classification step failed and the call returned the
\* workspace the keyword tier found
C16_Witness ==
    /\ lastMatchCall # << >> /\ LlmFailed(lastMatchCall[1].llm)
    /\ lastMatch # << >> /\ lastMatch[1].workspace # << >>
    /\ lastMatch[1].workspace[1].name = TodoApp
    /\ lastMatch[1].confidence = 8

\* C17: when the classification step answers with no workspace of the folder
\* or with a confidence <= 0.7, the keyword tier is still evaluated: a
\* workspace qualifying there is returned with confidence 0.8.
C17_LowConfidenceFallsThrough ==
    (/\ lastMatchCall # << >>
     /\ lastMatchCall[1].llm.kind = "json"
     /\ Qualifying(lastMatchCall[1].prompt) # {}
     /\ LET tier == LlmTier(listWorkspaces(fsWorkspaces), lastMatchCall[1].llm)[1]
        IN tier.workspace = << >> \/ tier.confidence <= 7) =>
      IsKeywordResult(lastMatch[1], lastMatchCall[1].prompt)

\* A name of the form adjective-noun-number
IsGeneratedName(name) ==
    LET parts == split(name)
    IN /\ Len(parts) = 3
       /\ \E a \in DOMAIN adjectives : adjectives[a] = parts[1]
       /\ \E n \in DOMAIN nouns : nouns[n] = parts[2]
       /\ parts[3] # << >>
       /\ \A i \in DOMAIN parts[3] : \E d \in DOMAIN Digits : Digits[d] = parts[3][i]

\* C15: a createSession whose prompt holds a creation-intent phrase, with no
\* hint and no @mention, leaves a directory named adjective-noun-number in the
\* workspace folder and binds the session to it (name and path); with a hint
\* or an @mention no directory is created.
C15_StepOk ==
    \A s \in Sessions, h \in Hints, p \in NewPrompts, n \in RandomNames :
      (/\ s \notin DOMAIN dbSessions
       /\ s \in DOMAIN dbSessions'
       /\ CreateSession(s, h, p, LlmInitError, n)) =>
        IF h = NoName /\ ~StartsWithMention(p)
          THEN detectNewProjectIntent(p) =>
                 /\ \E i \in DOMAIN fsWorkspaces' : fsWorkspaces'[i] = n
                 /\ IsGeneratedName(n)
                 /\ dbSessions'[s].workspace = n
                 /\ dbSessions'[s].workspacePath = PathOf(n)
                 /\ dbSessions'[s].workspacePath # NoPath
          ELSE fsWorkspaces' = fsWorkspaces
C15_NewProjectWorkspace == [][C15_StepOk]_vars

\* The step in which turn k of session s completes: sendMessage goes through
\* agent:done to the end of its try block
Completes(s, k) ==
    /\ k \in DOMAIN turns[s]
    /\ k \in DOMAIN turns'[s]
    /\ turns[s][k].pc \in {"streaming", "title"}
    /\ turns'[s][k].pc = "done"

\* C18: the finalization of a completed turn touches the session row's
\* updatedAt and emits session:updated with the row as its last event, and it
\* changes hasUnread only for a session that is not the viewed one, and then
\* to true; a turn that completes while its session is viewed leaves hasUnread
\* as it was.
C18_StepOk ==
    \A s \in Sessions, k \in 1..MaxTurns :
      Completes(s, k) =>
        /\ dbSessions'[s].updatedAt > dbSessions[s].updatedAt
        /\ Len(emitted'[s]) > Len(emitted[s])
        /\ emitted'[s][Len(emitted'[s])] = SessionUpdated(dbSessions'[s])
        /\ dbSessions'[s].hasUnread # dbSessions[s].hasUnread =>
              (s # viewedSessionId /\ dbSessions'[s].hasUnread)
        /\ s = viewedSessionId => dbSessions'[s].hasUnread = dbSessions[s].hasUnread
C18_FinalizationTouches == [][C18_StepOk]_vars

\* One session has completed a turn while viewed and is read, the other has
\* completed a turn while not viewed and is unread
C18_Witness ==
    /\ viewedSessionId = "s1"
    /\ \E k \in DOMAIN turns["s1"] : turns["s1"][k].pc = "done"
    /\ ~dbSessions["s1"].hasUnread
    /\ \E k \in DOMAIN turns["s2"] : turns["s2"][k].pc = "done"
    /\ dbSessions["s2"].hasUnread

\* The step in which turn k of session s leaves the stream: the message is
\* finalized and sendMessage decides about the title
LeavesStream(s, k) ==
    /\ k \in DOMAIN turns[s]
    /\ k \in DOMAIN turns'[s]
    /\ turns[s][k].pc = "streaming"
    /\ turns'[s][k].pc \in {"title", "done"}

\* No turn of session s has completed yet
NoneCompleted(s) == \A j \in DOMAIN turns[s] : turns[s][j].pc \notin {"title", "done"}

\* C19: the finalization of a session's first completed turn runs the title
\* summarization, whatever turns failed before it; a later finalization runs
\* it exactly when the session's message count is a multiple of 10.
C19_StepOk ==
    \A s \in Sessions, k \in 1..MaxTurns :
      LeavesStream(s, k) =>
        (turns'[s][k].pc = "title" <=>
           (NoneCompleted(s) \/ Len(dbMessages'[s]) % 10 = 0))
C19_TitleSchedule == [][C19_StepOk]_vars

\* The title client fails in this outcome: init() rejects, or chat() throws
\* after some text
TitleFailures == {o \in TitleOutcomes : o.error}

\* C20: when the title summarization fails, in the finalization of a turn or
\* in regenerateTitle, the stored title stays as it was and no
\* session:title-updated is emitted; the turn emits no agent:error and ends
\* with agent:done, and regenerateTitle returns null.
C20_StepOk ==
    \A s \in Sessions, o \in TitleFailures :
      /\ \A k \in 1..MaxTurns :
           (/\ k \in DOMAIN turns[s]
            /\ turns[s][k].pc = "title"
            /\ TitleEnd(s, k, o)) =>
             /\ dbSessions'[s].title = dbSessions[s].title
             /\ \A i \in (Len(emitted[s]) + 1)..Len(emitted'[s]) :
                  emitted'[s][i].event \notin {"session:title-updated", "agent:error"}
             /\ \E i \in (Len(emitted[s]) + 1)..Len(emitted'[s]) :
                  /\ emitted'[s][i].event = "agent:done"
                  /\ emitted'[s][i].messageId = turns[s][k].assistantMessageId
             /\ turns'[s][k].pc = "done"
             /\ dbSessions'[s].status = dbSessions[s].status
      /\ (dbMessages[s] # << >> /\ RegenerateTitle(s, o)) =>
             /\ dbSessions' = dbSessions
             /\ emitted' = emitted
             /\ lastResult'[s][1].ok
             /\ lastResult'[s][1].value = << >>
C20_TitleFailureIsSilent == [][C20_StepOk]_vars

\* A turn has ended with agent:done after its title generation failed, the
\* title is still the default one, and a regenerateTitle that failed has
\* returned null
C20_Witness ==
    \E s \in Sessions :
      /\ \E k \in DOMAIN turns[s] : turns[s][k].pc = "done" /\ turns[s][k].titleFailed
      /\ dbSessions[s].title = DefaultTitle
      /\ TitleEvents(s) = {}
      /\ ErrorEvents(s) = {}
      /\ lastResult[s] # << >>
      /\ lastResult[s][1].call = "regenerateTitle"
      /\ lastResult[s][1].caught
      /\ lastResult[s][1].value = << >>

\* The summarizer's answer is empty once trimmed
EmptyAnswers == {o \in TitleAnswers : trim(o.text) = << >>}

\* C21: every title that generateTitle or regenerateTitle stores or announces
\* has at least one and at most TitleCap characters, whatever text the
\* summarizer returned, and an answer that is empty once trimmed leaves the
\* stored title as it was.
C21_StateOk ==
    \A s \in Sessions : \A i \in TitleEvents(s) :
      Len(emitted[s][i].title) \in 1..TitleCap
C21_StepOk ==
    \A s \in Sessions :
      /\ (s \in DOMAIN dbSessions /\ dbSessions'[s].title # dbSessions[s].title) =>
            /\ Len(dbSessions'[s].title) \in 1..TitleCap
            /\ Len(emitted'[s]) > Len(emitted[s])
            /\ \E i \in (Len(emitted[s]) + 1)..Len(emitted'[s]) :
                 emitted'[s][i] = TitleUpdated(dbSessions'[s].title)
      /\ \A o \in EmptyAnswers :
           /\ (dbMessages[s] # << >> /\ RegenerateTitle(s, o)) =>
                 dbSessions' = dbSessions /\ emitted' = emitted
           /\ \A k \in 1..MaxTurns :
                (k \in DOMAIN turns[s] /\ turns[s][k].pc = "title" /\ TitleEnd(s, k, o)) =>
                  dbSessions'[s].title = dbSessions[s].title
C21_TitleCapped == [](C21_StateOk) /\ [][C21_StepOk]_vars

\* A summarizer text longer than the cap has been cut to a stored title of
\* exactly TitleCap characters in one session, and in the other a regenerateTitle
\* with an empty answer has returned null and left the generated title
C21_Witness ==
    /\ "s1" \in DOMAIN dbSessions /\ "s2" \in DOMAIN dbSessions
    /\ dbSessions["s1"].title = Repeat("x", TitleCap)
    /\ \E i \in TitleEvents("s1") : emitted["s1"][i].title = Repeat("x", TitleCap)
    /\ dbSessions["s2"].title = <<"T">>
    /\ lastResult["s2"] # << >>
    /\ lastResult["s2"][1].call = "regenerateTitle"
    /\ lastResult["s2"][1].value = << >>

\* Session s has no sendMessage invocation between its first line and its end
NoTurnInFlight(s) ==
    \A k \in DOMAIN turns[s] : turns[s][k].pc \notin {"init", "streaming", "title"}

\* C22: abortSession on a session that has no turn in flight (no ActiveSession,
\* no client yet, or idle between turns) changes nothing: the aborted flag and
\* all other state stay as they were.
C22_StepOk ==
    \A s \in Sessions : (NoTurnInFlight(s) /\ AbortSession(s)) => UNCHANGED vars
C22_AbortIdleIsNoOp == [][C22_StepOk]_vars

\* Turn k of session s is waiting for copilotClient.init()
WaitsForInit(s, k) == k \in DOMAIN turns[s] /\ turns[s][k].pc = "init"

\* The wait of turn k has ended: the turn streams or is past it, or it failed
\* with agent:error emitted and the session marked error
InitSettled(s, k) ==
    /\ k \in DOMAIN turns[s]
    /\ \/ turns[s][k].pc \in {"streaming", "title", "done"}
       \/ /\ turns[s][k].pc = "failed"
          /\ ErrorEvents(s) # {}
          /\ dbSessions[s].status = "error"

\* C23: init never hangs: a turn that waits for the client's initialization
\* eventually goes on, or fails with agent:error for its session and the
\* session marked error, even when the connection never becomes ready.
C23_InitNeverHangs ==
    \A s \in Sessions, k \in 1..MaxTurns : WaitsForInit(s, k) ~> InitSettled(s, k)

\* The row of session s says archived
IsArchived(rows, s) == s \in DOMAIN rows /\ rows[s].status = "archived"

\* The step ends turn k of session s: agent:done or the catch block
TurnEnds(s, k) ==
    /\ k \in DOMAIN turns[s]
    /\ k \in DOMAIN turns'[s]
    /\ turns[s][k].pc \in {"init", "streaming", "title"}
    /\ turns'[s][k].pc \in {"done", "failed"}

\* C24: archived is a toggle beside active / completed / error: unarchiving
\* an archived session gives it back the status it had when it was archived,
\* and the outcome of a turn does not change whether its session is archived.
C24_StepOk ==
    \A s \in Sessions :
      /\ (IsArchived(dbSessions, s) /\ UnarchiveSession(s)) =>
            dbSessions'[s].status = archivedFrom[s][1]
      /\ \A k \in 1..MaxTurns :
           TurnEnds(s, k) => (IsArchived(dbSessions', s) <=> IsArchived(dbSessions, s))
C24_ArchiveIsOrthogonal == [][C24_StepOk]_vars

\* The step hands the next emitted event of session s to its listener
Delivers(s) == renderer'.received[s] = renderer.received[s] + 1
DeliveredEvent(s) == emitted[s][renderer.received[s] + 1]

\* The event went into the streaming state of session s
AccumulatedFor(s, e) ==
    /\ s \in DOMAIN renderer.streamingStates
    /\ s \in DOMAIN renderer'.streamingStates
    /\ renderer'.streamingStates[s] = Accumulate(renderer.streamingStates[s], e)

\* session:create for s has been prepared or invoked and has not resolved
CreateUnresolved(s) == renderer.createCall[s] = "registered"

\* C25 (as claimed): every streaming event of a new session that reaches the
\* renderer before its session:create call has resolved is accumulated into
\* that session's streaming state.
C25_StepOk ==
    \A s \in Sessions :
      (/\ Delivers(s)
       /\ DeliveredEvent(s).event \in StreamEventNames
       /\ CreateUnresolved(s)) => AccumulatedFor(s, DeliveredEvent(s))
C25_AmendedStepOk ==
    \A s \in Sessions :
      (/\ Delivers(s)
       /\ DeliveredEvent(s).event \in StreamEventNames
       /\ CreateUnresolved(s)
       /\ ~renderer.aborting
       /\ s \notin renderer.aborted) => AccumulatedFor(s, DeliveredEvent(s))
----------------------------------------------------------------------------
(* CopilotClient.chat as a process of its own: the generator, the SDK        *)
(* session that calls its callback, and the for-await loop that consumes it. *)

SessionIdle == [type |-> "session.idle"]

\* Everything but the generator
programVars ==
    <<dbSessions, dbMessages, dbSnapshots, activeSessions, viewedSessionId, turns,
      sdkPending, sdkCount, uuidCount, emitted, fsWorkspaces, lastMatch, lastMatchCall,
      lastResult, sdkLog, archivedFrom, renderer, opLog, listeners, adapters, process>>

\* What the session can deliver: the events normalizeEvent maps, one it drops
\* (a final message without content), and session.idle
ChatEvents ==
    SdkEvents \cup {[type |-> "assistant.message", content |-> << >>], SessionIdle}

\* The first next() of the for-await loop: session.on, session.send, and on
\* into the loop
ChatStart ==
    /\ chat.pc = "created"
    /\ chat' = RunChat([chat EXCEPT !.subscribed = TRUE, !.calls = <<"on", "send">>])
    /\ UNCHANGED programVars

\* The session calls the subscribed callback with an event.  It answers the
\* prompt with one session.idle; other events may come before and after it.
ChatSessionEvent(event) ==
    /\ chat.subscribed
    /\ IF event = SessionIdle THEN chat.idles = 0 ELSE chat.delivered < MaxChatEvents
    /\ chat' = [OnSessionEvent(chat, event) EXCEPT
                  !.delivered = IF event = SessionIdle THEN @ ELSE @ + 1,
                  !.idles = IF event = SessionIdle THEN @ + 1 ELSE @,
                  !.backlogAtIdle = IF event = SessionIdle THEN Len(chat.events) ELSE @]
    /\ UNCHANGED programVars

\* The wake-up promise was resolved: the body goes on after the await
ChatResume ==
    /\ chat.pc = "await"
    /\ chat.promise = "resolved"
    /\ chat' = RunChat(chat)
    /\ UNCHANGED programVars

\* The for-await loop of sendMessage has handled the event and calls next()
ChatNext ==
    /\ chat.pc = "yield"
    /\ chat' = RunChat(chat)
    /\ UNCHANGED programVars

NextChat ==
    \/ ChatStart
    \/ \E event \in ChatEvents : ChatSessionEvent(event)
    \/ ChatResume
    \/ ChatNext

\* The job queue runs a resolved continuation, and the for-await loop, whose
\* body has no exit, asks for the next event
ConsumerFairness == WF_vars(ChatResume) /\ WF_vars(ChatNext)

SpecChat == Init /\ [][NextChat]_vars /\ ConsumerFairness

\* chat() is suspended with nothing to wake it
Asleep == chat.pc = "await" /\ chat.promise = "pending"

\* C26: chat() calls session.on before session.send; while it is suspended
\* with no wake-up on its way its queue is empty and session.idle has not
\* been seen; what it yields is what was queued, in order; when it has
\* returned it has yielded every queued event and has unsubscribed; and once
\* session.idle is seen it does return.
C26_StateOk ==
    /\ \A i \in DOMAIN chat.calls :
         chat.calls[i] = "send" => \E j \in 1..(i - 1) : chat.calls[j] = "on"
    /\ Asleep => (chat.events = << >> /\ ~chat.done)
    /\ chat.queued = chat.yielded \o chat.events
    /\ chat.pc = "returned" =>
         /\ chat.done
         /\ chat.yielded = chat.queued
         /\ ~chat.subscribed
         /\ chat.calls = <<"on", "send", "unsubscribe">>
C26_ChatDrainsAndEnds == [](C26_StateOk) /\ (chat.done ~> chat.pc = "returned")

\* C26 witness: session.idle arrived while events were still queued, more
\* than one event was yielded, and chat() has returned
C26_Witness ==
    /\ chat.pc = "returned"
    /\ chat.backlogAtIdle > 0
    /\ Len(chat.yielded) > 1

----------------------------------------------------------------------------
\* The positions of a finalization step of message id in a session's log
OpsAt(log, op, id) == {i \in DOMAIN log : log[i] = Op(op, id)}

\* C27: for every agent:done of a message, the message was updated exactly
\* once, before its snapshots, which were all saved before the title
\* summarization was called, which came before agent:done; the updateSession
\* call and session:updated follow agent:done at once; the message row holds
\* its one update and every snapshot row of the session was written by the
\* finalization of its message.
C27_FinalizationOrder ==
    \A s \in Sessions :
      LET log == opLog[s]
      IN /\ \A i \in DOMAIN log :
              log[i].op = "agent:done" =>
                LET id == log[i].id
                    updates == OpsAt(log, "updateMessage", id)
                    snapshots == OpsAt(log, "saveFileSnapshot", id)
                    titles == OpsAt(log, "generateTitle", id)
                IN /\ Cardinality(updates) = 1
                   /\ \A u \in updates : u < i /\ \A n \in snapshots : u < n
                   /\ \A n \in snapshots : n < i /\ \A g \in titles : n < g
                   /\ \A g \in titles : g < i
                   /\ i + 2 <= Len(log)
                   /\ log[i + 1] = Op("updateSession", id)
                   /\ log[i + 2] = Op("session:updated", id)
                   /\ \A r \in RowsOf(s, id) : dbMessages[s][r].updates = 1
                   /\ Cardinality(SnapshotsOf(s, id)) = Cardinality(snapshots)
                   /\ Cardinality(DoneEvents(s, id)) = 1
         /\ \A n \in DOMAIN dbSnapshots[s] :
              OpsAt(log, "updateMessage", dbSnapshots[s][n].message_id) # {}
         /\ Len(dbSnapshots[s]) =
              Cardinality({i \in DOMAIN log : log[i].op = "saveFileSnapshot"})

\* C27 witness: a turn with a file change and a title summarization is done
C27_Witness ==
    \E t \in TurnIds :
      LET id == Turn(t).assistantMessageId
      IN /\ Turn(t).pc = "done"
         /\ SnapshotsOf(t[1], id) # {}
         /\ OpsAt(opLog[t[1]], "generateTitle", id) # {}
         /\ DoneEvents(t[1], id) # {}

----------------------------------------------------------------------------
(* SpecStop: sessions are stopped while their turns are in flight.  The      *)
(* callers of stopSession delete the session's row or quit the application,  *)
(* so no sendMessage for a stopped session follows.                          *)

NextStop ==
    \/ \E s \in Sessions : CreateSession(s, NoName, HiPrompt, LlmInitError, RandomName)
    \/ \E s \in Sessions : s \in DOMAIN activeSessions /\ SendMessage(s, HiPrompt)
    \/ \E s \in Sessions, k \in 1..MaxTurns : InitOk(s, k)
    \/ \E s \in Sessions, k \in 1..MaxTurns : InitFail(s, k)
    \/ \E s \in Sessions, e \in SdkEvents : SdkEmit(s, e, MaxEvents)
    \/ \E s \in Sessions : SdkIdle(s)
    \/ \E s \in Sessions, k \in 1..MaxTurns : Consume(s, k)
    \/ \E s \in Sessions, k \in 1..MaxTurns : Finalize(s, k)
    \/ \E s \in Sessions, k \in 1..MaxTurns : TitleEnd(s, k, TitleClientFails)
    \/ \E s \in Sessions : StopSession(s)

SpecStop == Init /\ [][NextStop]_vars

\* C28: a stream event handled for a session that has no ActiveSession in the
\* map changes no ActiveSession, neither one in the map nor the one a running
\* sendMessage still holds, and emits nothing.
C28_StepOk ==
    \A s \in Sessions :
      s \notin DOMAIN activeSessions =>
        \A k \in DOMAIN turns[s] :
          Consume(s, k) =>
            /\ activeSessions' = activeSessions
            /\ emitted' = emitted
            /\ \A j \in DOMAIN turns[s] : turns'[s][j].detached = turns[s][j].detached
C28_LateEventsAreNoOps == [][C28_StepOk]_vars

\* C28 witness: the one turn of a stopped session has handled every event
\* its chat() received, the first a thinking event, and the object it holds
\* has an empty thinking buffer: the events were handled after the stop
C28_Witness ==
    \E s \in Sessions :
      /\ s \notin DOMAIN activeSessions
      /\ Len(turns[s]) = 1
      /\ turns[s][1].pc = "streaming"
      /\ turns[s][1].detached # << >>
      /\ turns[s][1].events = << >>
      /\ sdkLog[s] # << >>
      /\ sdkLog[s][1].type = "thinking"
      /\ turns[s][1].detached[1].thinking = << >>

----------------------------------------------------------------------------
(* SpecInfer: one session, one turn, whose agent starts a tool of any of     *)
(* several names with any of several argument objects, and completes calls   *)

\* Names on the list of handleStreamEvent (one in upper case), names that hold
\* a verb without being on the list, and a name without a verb
ToolNames ==
    { <<"c", "r", "e", "a", "t", "e", "_", "f", "i", "l", "e">>,
      <<"E", "d", "i", "t">>,
      <<"d", "e", "l", "e", "t", "e">>,
      <<"w", "r", "i", "t", "e">>,
      <<"s", "t", "r", "_", "r", "e", "p", "l", "a", "c", "e", "_", "e", "d", "i", "t", "o", "r">>,
      <<"r", "e", "a", "d", "_", "f", "i", "l", "e">> }

\* Argument objects: each path key alone, both, none, and an empty path
ToolArguments ==
    { [path |-> "f1"], [filePath |-> "f2"], [path |-> "f1", filePath |-> "f2"],
      [content |-> "n"], [path |-> "", filePath |-> "f2"] }

InferEvents ==
    { [type |-> "tool.execution_start", toolCallId |-> "c1", toolName |-> n,
       arguments |-> a] : n \in ToolNames, a \in ToolArguments }
    \cup
    { [type |-> "tool.execution_complete", toolCallId |-> c, result |-> "ok"] :
        c \in {"c1", "c9"} }

NextInfer ==
    \/ CreateSession("s1", NoName, HiPrompt, LlmInitError, RandomName)
    \/ InitOk("s1", 1)
    \/ \E e \in InferEvents : SdkEmit("s1", e, MaxInferEvents)
    \/ SdkIdle("s1")
    \/ Consume("s1", 1)
    \/ Finalize("s1", 1)
    \/ TitleEnd("s1", 1, TitleClientFails)

SpecInfer == Init /\ [][NextInfer]_vars

\* The tool call a tool_result at the head of the queue of turn k completes:
\* its index in active.toolCalls, or 0
CompletedCall(s, k) ==
    IF /\ k \in DOMAIN turns[s]
       /\ turns[s][k].pc = "streaming"
       /\ turns[s][k].events # << >>
       /\ Head(turns[s][k].events).type = "tool_result"
       /\ s \in DOMAIN activeSessions
      THEN FindToolCall(activeSessions[s].toolCalls, Head(turns[s][k].events).toolCallId)
      ELSE 0

\* The file changes a step adds for session s
AddedChanges(s) ==
    SubSeq(activeSessions'[s].fileChanges, Len(activeSessions[s].fileChanges) + 1,
           Len(activeSessions'[s].fileChanges))

\* The change type the substring rule gives a tool name, or "none"
TypeByVerb(name) ==
    LET lower == toLowerCase(name)
    IN IF includes(lower, <<"c", "r", "e", "a", "t", "e">>) \/ includes(lower, <<"w", "r", "i", "t", "e">>) THEN "created"
       ELSE IF includes(lower, <<"e", "d", "i", "t">>) \/ includes(lower, <<"r", "e", "p", "l", "a", "c", "e">>) THEN "modified"
       ELSE IF includes(lower, <<"d", "e", "l", "e", "t", "e">>) THEN "deleted"
       ELSE "none"

\* The change type the list of handleStreamEvent gives a tool name, or "none"
TypeByList(name) ==
    LET lower == toLowerCase(name)
    IN IF lower \in CreatedTools THEN "created"
       ELSE IF lower \in ModifiedTools THEN "modified"
       ELSE IF lower \in DeletedTools THEN "deleted"
       ELSE "none"

\* The first of the keys path, filePath an argument object has
FirstPresent(args) ==
    IF "path" \in DOMAIN args THEN args["path"]
    ELSE IF "filePath" \in DOMAIN args THEN args["filePath"]
    ELSE NULL

\* The first of the keys path, filePath that has a non-empty value
FirstNonEmpty(args) ==
    IF "path" \in DOMAIN args /\ args["path"] # "" THEN args["path"]
    ELSE IF "filePath" \in DOMAIN args THEN args["filePath"]
    ELSE NULL

\* C29 as stated: when a tool result completes a known tool call, the file
\* change added is the one the substring rule gives the tool name (none for
\* a name without a verb), with the first present of the path keys.
C29_StepOk ==
    \A s \in Sessions, k \in 1..MaxTurns :
      (CompletedCall(s, k) # 0 /\ Consume(s, k)) =>
        LET tc == activeSessions[s].toolCalls[CompletedCall(s, k)]
        IN IF TypeByVerb(tc.name) = "none"
             THEN AddedChanges(s) = << >>
             ELSE /\ Len(AddedChanges(s)) = 1
                  /\ AddedChanges(s)[1].type = TypeByVerb(tc.name)
                  /\ AddedChanges(s)[1].path = FirstPresent(tc.arguments)
C29_AmendedStepOk ==
    \A s \in Sessions, k \in 1..MaxTurns :
      (CompletedCall(s, k) # 0 /\ Consume(s, k)) =>
        LET tc == activeSessions[s].toolCalls[CompletedCall(s, k)]
        IN IF TypeByList(tc.name) = "none"
             THEN AddedChanges(s) = << >>
             ELSE /\ Len(AddedChanges(s)) = 1
                  /\ AddedChanges(s)[1].type = TypeByList(tc.name)
                  /\ AddedChanges(s)[1].path = FirstNonEmpty(tc.arguments)
----------------------------------------------------------------------------
\* A tool call has none of the path keys
NoPathKey(tc) == "path" \notin DOMAIN tc.arguments /\ "filePath" \notin DOMAIN tc.arguments

\* A tool call of an unrecognized shape: a name that is not on the list, or
\* arguments without a path key
Unrecognized(tc) == TypeByList(tc.name) = "none" \/ NoPathKey(tc)

\* The events a step emits for session s
AddedEvents(s) == SubSeq(emitted'[s], Len(emitted[s]) + 1, Len(emitted'[s]))

\* C30: a tool result that names no known tool call, or completes a tool call
\* of an unrecognized shape, adds no file change and emits nothing but
\* agent:tool-result; and a session all of whose completed tool calls have
\* an unrecognized shape has no failed turn and no agent:error.
C30_StepOk ==
    \A s \in Sessions, k \in 1..MaxTurns :
      ( /\ k \in DOMAIN turns[s]
        /\ turns[s][k].pc = "streaming"
        /\ turns[s][k].events # << >>
        /\ Head(turns[s][k].events).type = "tool_result"
        /\ s \in DOMAIN activeSessions
        /\ \/ CompletedCall(s, k) = 0
           \/ Unrecognized(activeSessions[s].toolCalls[CompletedCall(s, k)])
        /\ Consume(s, k) ) =>
          /\ AddedChanges(s) = << >>
          /\ \A i \in DOMAIN AddedEvents(s) : AddedEvents(s)[i].event = "agent:tool-result"
C30_StateOk ==
    \A s \in DOMAIN activeSessions :
      (\A i \in DOMAIN activeSessions[s].toolCalls :
         activeSessions[s].toolCalls[i].status = "completed" =>
           Unrecognized(activeSessions[s].toolCalls[i])) =>
        /\ ErrorEvents(s) = {}
        /\ \A k \in DOMAIN turns[s] : turns[s][k].pc # "failed"
C30_UnrecognizedShapesIgnored == [](C30_StateOk) /\ [][C30_StepOk]_vars

----------------------------------------------------------------------------
(* SpecKeyword: workspace:match calls in which the classification step       *)
(* gives no answer, over folders whose names have one, two and three parts,  *)
(* an empty part, and upper-case letters                                     *)

KeywordLists ==
    { << Billing, TodoApp >>,
      << <<"a", "p", "p", "-", "t", "o", "d", "o">>, TodoApp >>,
      << <<"m", "y", "-", "t", "o", "d", "o", "-", "a", "p", "i">>, TodoApp >>,
      << TodoApp, <<"x", "_", "_", "y">> >>,
      << <<"T", "o", "d", "o", "_", "A", "p", "p">> >> }

KeywordPrompts ==
    { <<"f", "i", "x", " ", "t", "o", "d", "o", " ", "a", "p", "p">>,
      <<"T", "O", "D", "O", " ", "A", "P", "P">>,
      <<"t", "o", "d", "o">>,
      <<"b", "i", "l", "l", "i", "n", "g", " ", "t", "o", "d", "o", " ", "a", "p", "p">>,
      <<"m", "y", " ", "t", "o", "d", "o">>,
      <<"s", "e", "e", " ", "x">>,
      HiPrompt }

\* What the classification step does when it gives no answer
NoAnswers == { LlmInitError, [kind |-> "chatError"], [kind |-> "noJson"], [kind |-> "badJson"] }

InitKeyword ==
    /\ dbSessions = << >>
    /\ dbMessages = [s \in Sessions |-> << >>]
    /\ dbSnapshots = [s \in Sessions |-> << >>]
    /\ activeSessions = << >>
    /\ viewedSessionId = NULL
    /\ turns = [s \in Sessions |-> << >>]
    /\ sdkPending = [s \in Sessions |-> 0]
    /\ sdkCount = 0
    /\ uuidCount = [s \in Sessions |-> 0]
    /\ emitted = [s \in Sessions |-> << >>]
    /\ fsWorkspaces \in KeywordLists
    /\ lastMatch = << >>
    /\ lastMatchCall = << >>
    /\ lastResult = [s \in Sessions |-> << >>]
    /\ sdkLog = [s \in Sessions |-> << >>]
    /\ archivedFrom = [s \in Sessions |-> << >>]
    /\ renderer = NewStore
    /\ chat = NewChat
    /\ opLog = [s \in Sessions |-> << >>]
    /\ listeners = NoListeners
    /\ adapters = NoAdapters
    /\ process = NewProcess

NextKeyword == \E p \in KeywordPrompts, l \in NoAnswers : MatchWorkspaceCall(p, l)

SpecKeyword == InitKeyword /\ [][NextKeyword]_vars

\* The tokens of a workspace name that appear in the prompt (letter case
\* apart), by their positions in the name
TokensInPrompt(name, prompt) ==
    {i \in DOMAIN split(toLowerCase(name)) :
       includes(toLowerCase(prompt), split(toLowerCase(name))[i])}

\* The workspaces of the folder the claim's rule accepts for the prompt
AcceptedByRule(prompt) ==
    {i \in DOMAIN fsWorkspaces :
       \/ Cardinality(TokensInPrompt(fsWorkspaces[i], prompt)) >= 2
       \/ /\ Len(split(toLowerCase(fsWorkspaces[i]))) = 1
          /\ TokensInPrompt(fsWorkspaces[i], prompt) # {}}

\* C31: when the classification step gives no answer, workspace:match returns
\* the first workspace, in list order, of which at least two tokens appear in
\* the prompt or whose single token appears in it, with confidence 0.8; and
\* no workspace with confidence 0 when there is none.
C31_KeywordTier ==
    lastMatchCall # << >> =>
      LET prompt == lastMatchCall[1].prompt
          result == lastMatch[1]
      IN IF AcceptedByRule(prompt) = {}
           THEN result.workspace = << >> /\ result.confidence = 0
           ELSE /\ result.workspace # << >>
                /\ result.confidence = FallbackConfidence
                /\ \E i \in AcceptedByRule(prompt) :
                     /\ \A j \in AcceptedByRule(prompt) : i <= j
                     /\ result.workspace[1] = Workspace(fsWorkspaces[i])

\* C31 witness: two workspaces are accepted and the first of the list is
\* returned, and a workspace with one of three tokens in the prompt is passed over
C31_Witness ==
    /\ lastMatchCall # << >>
    /\ \/ /\ Cardinality(AcceptedByRule(lastMatchCall[1].prompt)) = 2
          /\ lastMatch[1].workspace # << >>
          /\ lastMatch[1].workspace[1].name = fsWorkspaces[1]
       \/ /\ fsWorkspaces[1] = <<"m", "y", "-", "t", "o", "d", "o", "-", "a", "p", "i">>
          /\ lastMatch[1].workspace # << >>
          /\ lastMatch[1].workspace[1].name = TodoApp

----------------------------------------------------------------------------
(* SpecListeners: callers of setupEventListeners.  Each call's result is    *)
(* kept by its caller and run at most once, at any later time.              *)

NextListeners ==
    \/ SetupEventListeners
    \/ \E i \in 1..MaxHeld : RunCleanup(i)
    \/ IpcEvent

SpecListeners == Init /\ [][NextListeners]_vars

\* C32: However often setupEventListeners is called without a cleanup in
\* between, every IPC event is handled by exactly one listener set; once the
\* cleanup has run no listener is registered, and a later call registers
\* exactly one set again.
C32_OneListenerSet ==
    /\ listeners.listenersSetup => Cardinality(listeners.registered) = 1
    /\ ~listeners.listenersSetup => listeners.registered = {}
    /\ listeners.handledBy # << >> => listeners.handledBy[1] <= 1

----------------------------------------------------------------------------
(* An abort of one session while another streams (SpecRenderer).  The store *)
(* changes streamingSessions in the same set() calls as the keys of         *)
(* streamingStates, so the keys stand for both.                             *)

streamingSessions(store) == DOMAIN store.streamingStates

\* agent:done of session s has reached its listener
DoneDelivered(s) ==
    \E i \in 1..renderer.received[s] : emitted[s][i].event = "agent:done"

\* While the abort of session a is pending, an event of another session b is
\* handled as without the abort
C33_StepOk ==
    \A a \in Sessions : \A b \in Sessions \ {a} :
      (/\ renderer.abortTarget = a
       /\ Delivers(b)
       /\ b \in streamingSessions(renderer)) =>
        /\ DeliveredEvent(b).event \in StreamEventNames =>
             AccumulatedFor(b, DeliveredEvent(b))
        /\ DeliveredEvent(b).event = "agent:done" =>
             b \notin streamingSessions(renderer')

\* No session is marked as streaming once its agent:done was handled and no
\* abort is pending
C33_StateOk ==
    \A b \in Sessions :
      (renderer.abortTarget = NULL /\ DoneDelivered(b)) =>
        b \notin streamingSessions(renderer)

\* C33: Aborting session A does not affect a session B that streams at the
\* same time: while A's abort is pending B's streaming events are accumulated
\* into B's streaming state and B's agent:done removes B from
\* streamingSessions, so B is never left marked as streaming after its turn.
C33_AbortLeavesOthersAlone == []C33_StateOk /\ [][C33_StepOk]_vars

----------------------------------------------------------------------------
(* A turn after a failed init (Spec) *)

\* The step is a sendMessage of session s: a turn is added
StartsTurn(s) == Len(turns'[s]) = Len(turns[s]) + 1

\* The last thing sendMessage did for s was to report a failed init
InitJustFailed(s) ==
    /\ emitted[s] # << >>
    /\ emitted[s][Len(emitted[s])] = AgentError("init failed")

\* The session's adapter was constructed and holds no SDK session
HoldsUninitialized(s) ==
    /\ s \in DOMAIN activeSessions
    /\ activeSessions[s].copilotClient = "created"

C34_StepOk ==
    \A s \in Sessions :
      (StartsTurn(s) /\ InitJustFailed(s)) => turns'[s][Len(turns'[s])].pc = "init"

C34_StateOk ==
    \A s \in Sessions :
      HoldsUninitialized(s) => \E k \in DOMAIN turns[s] : turns[s][k].pc = "init"

\* C34: After the adapter's init failed in a turn, the next sendMessage on the
\* session attempts init again; a session holds an adapter without SDK
\* session only while that adapter's init is running.
C34_InitRetried == []C34_StateOk /\ [][C34_StepOk]_vars

----------------------------------------------------------------------------
(* The status of a session over failed and completed turns (SpecLife) *)

C35_StepOk ==
    \A s \in Sessions, k \in 1..MaxTurns :
      (Completes(s, k) /\ s \in DOMAIN dbSessions') => dbSessions'[s].status # "error"

C35_StateOk ==
    \A s \in DOMAIN dbSessions :
      dbSessions[s].status = "error" =>
        \E k \in DOMAIN turns[s] : turns[s][k].pc = "failed"

\* C35: A session whose status a failed turn set to error has a status other
\* than error once a later turn has completed: the status is error only if
\* the turn that ended last failed.
C35_ErrorStatusCleared == []C35_StateOk /\ [][C35_StepOk]_vars

----------------------------------------------------------------------------
(* SpecView: the message list of the store over session switches, new       *)
(* sessions and the reloads of agent:done.  The main process handles        *)
(* invokes in the order they were made and its handlers do not await, so    *)
(* replies arrive in that order.                                            *)

NextView ==
    \/ \E s \in Sessions : RendererBeginCreate(s)
    \/ \E s \in Sessions :
         /\ renderer.createCall[s] = "registered"
         /\ CreateSession(s, NoName, HiPrompt, LlmInitError, RandomName)
    \/ \E s \in Sessions : RendererCreateResolved(s)
    \/ \E s \in Sessions, k \in 1..MaxTurns : ChannelFree(s) /\ InitOk(s, k)
    \/ \E s \in Sessions : ChannelFree(s) /\ SdkIdle(s)
    \/ \E s \in Sessions, k \in 1..MaxTurns : ChannelFree(s) /\ Finalize(s, k)
    \/ \E s \in Sessions, k \in 1..MaxTurns :
         ChannelFree(s) /\ TitleEnd(s, k, TitleClientFails)
    \/ \E s \in Sessions : RendererDeliverDone(s)
    \/ \E id \in Sessions \cup {NULL} : RendererSetActiveSession(id)
    \/ MainHandleInvoke
    \/ RendererResolveInvoke

SpecView == Init /\ [][NextView]_vars

\* C36: The message list of the store belongs to the active session: once no
\* call of setActiveSession or loadMessages is pending, every message in
\* the list has the active session's id as its sessionId.
C36_MessagesOfActiveSession ==
    renderer.invokes = << >> =>
      \A i \in DOMAIN renderer.messages :
        renderer.messages[i].sessionId = renderer.activeSessionId

----------------------------------------------------------------------------
(* The workspace fields of the rows createSession stores (SpecRoute) *)

\* C37: Every session createSession stores has a workspace name if and only
\* if it has a workspacePath: no row has a workspace and a null workspacePath.
C37_WorkspaceIffPath ==
    \A s \in DOMAIN dbSessions :
      (dbSessions[s].workspace # NoName) <=> (dbSessions[s].workspacePath # NoPath)

----------------------------------------------------------------------------
(* SpecStopAll: turns with title generation, session:delete, and one        *)
(* stopAll() call (before-quit) that runs while the application goes on     *)
(* handling calls                                                           *)

NextStopAll ==
    \/ \E s \in Sessions : CreateSession(s, NoName, HiPrompt, LlmInitError, RandomName)
    \/ \E s \in Sessions : s \in DOMAIN activeSessions /\ SendMessage(s, HiPrompt)
    \/ \E s \in Sessions, k \in 1..MaxTurns : InitOk(s, k)
    \/ \E s \in Sessions, k \in 1..MaxTurns : InitFail(s, k)
    \/ \E s \in Sessions : SdkIdle(s)
    \/ \E s \in Sessions, k \in 1..MaxTurns : Finalize(s, k)
    \/ \E s \in Sessions, k \in 1..MaxTurns, o \in TitleOutcomes : TitleEnd(s, k, o)
    \/ \E s \in Sessions : StopSession(s)
    \/ StopAllBegin
    \/ \E s \in Sessions : StopAllStep(s)

SpecStopAll == Init /\ [][NextStopAll]_vars

C38_StepOk ==
    (adapters.stopAll # "returned" /\ adapters'.stopAll = "returned") =>
      adapters'.initialized \subseteq adapters'.stopped

\* C38: Every adapter AgentManager has initialized, for a session or for
\* workspace matching or title generation, has been stopped when stopAll()
\* returns.
C38_AllAdaptersStopped == [][C38_StepOk]_vars

----------------------------------------------------------------------------
(* SpecExecPath: init() calls of several clients, overlapping at the await  *)

NextExecPath ==
    \/ \E c \in 1..MaxInits, n \in NodePaths : ClientInit(c, n)
    \/ \E c \in 1..MaxInits : ClientInitResolves(c)
    \/ \E c \in 1..MaxInits : ClientInitRejects(c)

SpecExecPath == Init /\ [][NextExecPath]_vars

\* C39: Once every init() call that started has completed, by resolving or
\* by throwing, process.execPath has the value it had before the first call.
C39_ExecPathRestored ==
    (\A c \in 1..MaxInits : process.calls[c].pc # "awaiting") =>
      process.execPath = ElectronPath

====
